---- MODULE Spec2Model ----
(***************************************************************************)
(* A model of chalk's lowering pass (src/ir/lowering.rs) and of its        *)
(* lexical environment (src/ir/lowering/env.rs).                           *)
(*                                                                         *)
(* Two specifications are given.  Spec drives an Env through nested        *)
(* in_binders calls and applies the per-node lowerers to small syntax      *)
(* trees in the environments so reached.  SpecLower runs the driver        *)
(* LowerProgram::lower over small programs, one loop iteration per step.   *)
(***************************************************************************)
EXTENDS Integers, Sequences, FiniteSets, TLC

\* ------------------------------------------------------------------------
\* Bounds of the model
\* ------------------------------------------------------------------------
MaxBinders == 2      \* longest parameter list handed to introduce / in_binders
MaxDepth == 1        \* deepest nest of in_binders calls in progress
MaxItems == 3        \* longest program handed to the driver

\* ------------------------------------------------------------------------
\* Generic helpers
\* ------------------------------------------------------------------------
Range(s) == {s[i] : i \in DOMAIN s}

RECURSIVE SeqSum(_)
SeqSum(s) == IF s = <<>> THEN 0 ELSE Head(s) + SeqSum(Tail(s))

Reverse(s) == [i \in 1..Len(s) |-> s[Len(s) + 1 - i]]

\* chalk_parse::ast::Identifier: an interned string and a span
Ident(s) == [str |-> s, span |-> 0]

\* Result<T> of a function taking &self / &mut self: the value or the error,
\* and the receiver as the call leaves it.
Ok(v, e) == [ok |-> TRUE, val |-> v, env |-> e]
Err(x, e) == [ok |-> FALSE, err |-> x, env |-> e]
\* bail!("...") with a formatted message
Msg(m) == [kind |-> "Msg", msg |-> m]

\* let v = ...; K: the value is computed once and named in what follows
Bind(v, K(_)) == K(v)
\* the ? operator: an Err is returned as it is, an Ok is handed on
Try(r, K(_)) == IF r.ok THEN K(r) ELSE r

\* ir::ParameterKind<ir::Identifier>
PTy(n) == [kind |-> "Ty", name |-> n]
PLifetime(n) == [kind |-> "Lifetime", name |-> n]

\* ------------------------------------------------------------------------
\* Maps (BTreeMap) as functions
\* ------------------------------------------------------------------------
EmptyMap == [x \in {} |-> 0]

\* BTreeMap::insert: a present key has its value replaced
MapInsert(m, k, v) == [x \in DOMAIN m \cup {k} |-> IF x = k THEN v ELSE m[x]]

\* ir::Binders<T>
Binders(b, v) == [binders |-> b, value |-> v]

\* Anonymize for [ParameterKind<T>]: every name is replaced by ()
anonymize(kinds) == [i \in 1..Len(kinds) |-> [kind |-> kinds[i].kind]]

\* ------------------------------------------------------------------------
\* env.rs
\* ------------------------------------------------------------------------
EnvEmpty(tids, tkinds, infos) ==
    [type_ids |-> tids,
     type_kinds |-> tkinds,
     associated_ty_infos |-> infos,
     parameter_map |-> EmptyMap,
     traits_in_scope |-> EmptyMap]

trait_in_scope(env, trait_ref) ==
    [env EXCEPT !.traits_in_scope = MapInsert(@, trait_ref.trait_id, trait_ref)]

\* resolve_unselected_projection_ty taking a candidate whenever there is one
resolve_unselected_projection_ty_AnyCandidate(env, ty) ==
    LET candidates == {key \in DOMAIN env.associated_ty_infos :
                          /\ key[2] = ty.type_name
                          /\ key[1] \in DOMAIN env.traits_in_scope}
    IN  IF candidates = {}
        THEN Err(Msg("ambiguous associated ty"), env)
        ELSE LET key == CHOOSE k \in candidates : TRUE
                 trait_ref == env.traits_in_scope[key[1]]
             IN  Ok([associated_ty_id |-> env.associated_ty_infos[key].id,
                     parameters |-> ty.parameters \o trait_ref.parameters], env)

resolve_unselected_projection_ty(env, ty) ==
    LET candidates == {key \in DOMAIN env.associated_ty_infos :
                          /\ key[2] = ty.type_name
                          /\ key[1] \in DOMAIN env.traits_in_scope}
    IN  IF Cardinality(candidates) # 1
        THEN Err(Msg("ambiguous associated ty"), env)
        ELSE LET key == CHOOSE k \in candidates : TRUE
                 trait_ref == env.traits_in_scope[key[1]]
             IN  Ok([associated_ty_id |-> env.associated_ty_infos[key].id,
                     parameters |-> ty.parameters \o trait_ref.parameters], env)

get_assoc_ty_info(env, key) ==
    IF key \in DOMAIN env.associated_ty_infos
    THEN [some |-> TRUE, info |-> env.associated_ty_infos[key]]
    ELSE [some |-> FALSE]

\* lookup resolving types before parameters
lookup_TypesFirst(env, name) ==
    IF name.str \in DOMAIN env.type_ids
    THEN Ok([tag |-> "Type", id |-> env.type_ids[name.str]], env)
    ELSE IF PTy(name.str) \in DOMAIN env.parameter_map
         THEN Ok([tag |-> "Parameter", depth |-> env.parameter_map[PTy(name.str)]], env)
         ELSE Err([kind |-> "InvalidTypeName", name |-> name], env)

lookup(env, name) ==
    IF PTy(name.str) \in DOMAIN env.parameter_map
    THEN Ok([tag |-> "Parameter", depth |-> env.parameter_map[PTy(name.str)]], env)
    ELSE IF name.str \in DOMAIN env.type_ids
         THEN Ok([tag |-> "Type", id |-> env.type_ids[name.str]], env)
         ELSE Err([kind |-> "InvalidTypeName", name |-> name], env)

lookup_lifetime(env, name) ==
    IF PLifetime(name.str) \in DOMAIN env.parameter_map
    THEN Ok([tag |-> "Parameter", depth |-> env.parameter_map[PLifetime(name.str)]], env)
    ELSE Err(Msg("invalid lifetime name"), env)

type_kind(env, id) == env.type_kinds[id]

\* introduce with the new parameters numbered from 1
introduce_OffByOne(env, binders) ==
    LET len == Len(binders)
        old == env.parameter_map
        last(k) == CHOOSE i \in DOMAIN binders :
                       /\ binders[i] = k
                       /\ \A j \in DOMAIN binders : binders[j] = k => j <= i
        parameter_map == [k \in DOMAIN old \cup Range(binders) |->
                             IF k \in Range(binders) THEN last(k)
                             ELSE old[k] + len]
    IN  IF Cardinality(DOMAIN parameter_map) # Cardinality(DOMAIN old) + len
        THEN Err(Msg("duplicate parameters"), env)
        ELSE Ok([env EXCEPT !.parameter_map = parameter_map], env)

\* introduce that leaves the old depths as they are
introduce_NoShift(env, binders) ==
    LET len == Len(binders)
        old == env.parameter_map
        last(k) == CHOOSE i \in DOMAIN binders :
                       /\ binders[i] = k
                       /\ \A j \in DOMAIN binders : binders[j] = k => j <= i
        parameter_map == [k \in DOMAIN old \cup Range(binders) |->
                             IF k \in Range(binders) THEN last(k) - 1
                             ELSE old[k]]
    IN  IF Cardinality(DOMAIN parameter_map) # Cardinality(DOMAIN old) + len
        THEN Err(Msg("duplicate parameters"), env)
        ELSE Ok([env EXCEPT !.parameter_map = parameter_map], env)

\* introduce that lets a new parameter shadow an old one of the same key
introduce_Shadowing(env, binders) ==
    LET len == Len(binders)
        old == env.parameter_map
        last(k) == CHOOSE i \in DOMAIN binders :
                       /\ binders[i] = k
                       /\ \A j \in DOMAIN binders : binders[j] = k => j <= i
        parameter_map == [k \in DOMAIN old \cup Range(binders) |->
                             IF k \in Range(binders) THEN last(k) - 1
                             ELSE old[k] + len]
    IN  IF Cardinality(Range(binders)) # len
        THEN Err(Msg("duplicate parameters"), env)
        ELSE Ok([env EXCEPT !.parameter_map = parameter_map], env)

\* introduce that shifts the receiver's own map
introduce_InPlace(env, binders) ==
    LET len == Len(binders)
        old == env.parameter_map
        last(k) == CHOOSE i \in DOMAIN binders :
                       /\ binders[i] = k
                       /\ \A j \in DOMAIN binders : binders[j] = k => j <= i
        parameter_map == [k \in DOMAIN old \cup Range(binders) |->
                             IF k \in Range(binders) THEN last(k) - 1
                             ELSE old[k] + len]
    IN  IF Cardinality(DOMAIN parameter_map) # Cardinality(DOMAIN old) + len
        THEN Err(Msg("duplicate parameters"), env)
        ELSE Ok([env EXCEPT !.parameter_map = parameter_map],
                [env EXCEPT !.parameter_map = parameter_map])

\* The pairs (k, v + len) of the old map chained with the pairs (binder, i)
\* are collected into a map; a key met again takes the later value.
\* introduce shifting the existing parameters by one too many
introduce_Gap(env, binders) ==
    LET len == Len(binders)
        old == env.parameter_map
        last(k) == CHOOSE i \in DOMAIN binders :
                       /\ binders[i] = k
                       /\ \A j \in DOMAIN binders : binders[j] = k => j <= i
        parameter_map == [k \in DOMAIN old \cup Range(binders) |->
                             IF k \in Range(binders) THEN last(k) - 1
                             ELSE old[k] + len + 1]
    IN  IF Cardinality(DOMAIN parameter_map) # Cardinality(DOMAIN old) + len
        THEN Err(Msg("duplicate parameters"), env)
        ELSE Ok([env EXCEPT !.parameter_map = parameter_map], env)

introduce(env, binders) ==
    LET len == Len(binders)
        old == env.parameter_map
        last(k) == CHOOSE i \in DOMAIN binders :
                       /\ binders[i] = k
                       /\ \A j \in DOMAIN binders : binders[j] = k => j <= i
        parameter_map == [k \in DOMAIN old \cup Range(binders) |->
                             IF k \in Range(binders) THEN last(k) - 1
                             ELSE old[k] + len]
    IN  IF Cardinality(DOMAIN parameter_map) # Cardinality(DOMAIN old) + len
        THEN Err(Msg("duplicate parameters"), env)
        ELSE Ok([env EXCEPT !.parameter_map = parameter_map], env)

\* in_binders (env.rs 142-154): the callback op runs on the introduced Env, a local of the
\* call; the receiver is only read.
in_binders(env, binders, op(_)) ==
    Bind(introduce(env, binders), LAMBDA i :
    IF ~i.ok THEN Err(i.err, env)
    ELSE Bind(op(i.val), LAMBDA v :
         IF ~v.ok THEN Err(v.err, env)
         ELSE Ok(Binders(anonymize(binders), v.val), env)))

\* ------------------------------------------------------------------------
\* ir helpers used by the lowerers
\* ------------------------------------------------------------------------
IrVar(d) == [tag |-> "Var", depth |-> d]
IrTyParam(t) == [kind |-> "Ty", ty |-> t]
IrLifetimeParam(l) == [kind |-> "Lifetime", lifetime |-> l]

\* ToParameter for (&ParameterKind<()>, usize)
to_parameter(k, index) ==
    IF k.kind = "Ty" THEN IrTyParam(IrVar(index)) ELSE IrLifetimeParam(IrVar(index))

\* ir::TraitBound::as_trait_ref: Self comes first
as_trait_ref(bound, self_ty) ==
    [trait_id |-> bound.trait_id,
     parameters |-> <<IrTyParam(self_ty)>> \o bound.args_no_self]

\* Binders<Vec<T>>::into_iter: one Binders<T> per element, same binders
BindersIntoIter(b) == [i \in 1..Len(b.value) |-> Binders(b.binders, b.value[i])]

Panic(m) == [kind |-> "Panic", msg |-> m]

\* ------------------------------------------------------------------------
\* lowering.rs: parameter maps
\* ------------------------------------------------------------------------
\* LowerParameterKind::lower
LowerParameterKind(pk) == [kind |-> pk.kind, name |-> pk.name.str]

SELF == "Self"

\* no synthetic parameter for a trait either
synthetic_parameters_None(item) == <<>>

\* LowerParameterMap::synthetic_parameters, as an Option turned into a list
synthetic_parameters(item) ==
    IF item.tag = "TraitDefn" THEN <<PTy(SELF)>> ELSE <<>>

declared_parameters(item) == item.parameter_kinds

all_parameters(item) ==
    synthetic_parameters(item)
        \o [i \in 1..Len(declared_parameters(item)) |->
                LowerParameterKind(declared_parameters(item)[i])]

parameter_refs(item) ==
    LET a == anonymize(all_parameters(item))
    IN  [i \in 1..Len(a) |-> to_parameter(a[i], i - 1)]

\* fn check_type_kinds
\* check_type_kinds accepting any pair of kinds
check_type_kinds_Unchecked(msg, expected, actual) == [ok |-> TRUE]

check_type_kinds(msg, expected, actual) ==
    IF expected.kind # actual.kind
    THEN [ok |-> FALSE, err |-> Msg(msg)]
    ELSE [ok |-> TRUE]

\* for (e, a) in expected.iter().zip(actual.iter()) { check_type_kinds(msg, e, a)?; }
CheckKindsZip(msg, expected, actual) ==
    LET n == IF Len(expected) < Len(actual) THEN Len(expected) ELSE Len(actual)
        bad == {i \in 1..n : ~check_type_kinds(msg, expected[i], actual[i]).ok}
    IN  IF bad = {} THEN [ok |-> TRUE]
        ELSE LET i == CHOOSE j \in bad : \A k \in bad : j <= k
             IN  check_type_kinds(msg, expected[i], actual[i])

\* ------------------------------------------------------------------------
\* lowering.rs: types, trait references, projections
\* ------------------------------------------------------------------------
RECURSIVE LowerTy(_, _)
RECURSIVE LowerParameter(_, _)
RECURSIVE LowerParameters(_, _)
RECURSIVE LowerTraitBound(_, _)
RECURSIVE LowerTraitRef(_, _)
RECURSIVE LowerProjectionTy(_, _)
RECURSIVE LowerUnselectedProjectionTy(_, _)

LowerLifetime(l, env) ==
    Try(lookup_lifetime(env, l.name), LAMBDA r : Ok(IrVar(r.val.depth), env))

LowerParameter(p, env) ==
    IF p.kind = "Ty"
    THEN Try(LowerTy(p.ty, env), LAMBDA r : Ok(IrTyParam(r.val), r.env))
    ELSE Try(LowerLifetime(p.lifetime, env),
             LAMBDA r : Ok(IrLifetimeParam(r.val), r.env))

\* args.iter().map(|a| a.lower(env)).collect::<Result<Vec<_>>>(): stops at
\* the first error
LowerParameters(args, env) ==
    IF args = <<>> THEN Ok(<<>>, env)
    ELSE Try(LowerParameter(Head(args), env), LAMBDA h :
         Try(LowerParameters(Tail(args), h.env), LAMBDA t :
         Ok(<<h.val>> \o t.val, t.env)))

TyId(name, env) ==
    Try(lookup(env, name), LAMBDA r :
        IF r.val.tag = "Type"
        THEN IF Len(type_kind(env, r.val.id).binders.binders) > 0
             THEN Err([kind |-> "IncorrectNumberOfTypeParameters",
                       name |-> name,
                       expected |-> Len(type_kind(env, r.val.id).binders.binders),
                       actual |-> 0], env)
             ELSE Ok([tag |-> "Apply", id |-> r.val.id, parameters |-> <<>>], env)
        ELSE Ok(IrVar(r.val.depth), env))

TyApply(name, args, env) ==
    Try(lookup(env, name), LAMBDA r :
        IF r.val.tag = "Parameter"
        THEN Err([kind |-> "CannotApplyTypeParameter", name |-> name], env)
        ELSE Bind(type_kind(env, r.val.id), LAMBDA k :
             IF Len(k.binders.binders) # Len(args)
             THEN Err([kind |-> "IncorrectNumberOfTypeParameters",
                       name |-> name,
                       expected |-> Len(k.binders.binders),
                       actual |-> Len(args)], env)
             ELSE Try(LowerParameters(args, env), LAMBDA ps :
                  Bind(CheckKindsZip("incorrect parameter kind",
                                     k.binders.binders, args), LAMBDA c :
                  IF ~c.ok THEN Err(c.err, ps.env)
                  ELSE Ok([tag |-> "Apply", id |-> r.val.id,
                           parameters |-> ps.val], ps.env)))))

\* Ty::ForAll: the body is lowered in quantified_env, a local
TyForAll(lifetime_names, ty, env) ==
    Bind(introduce(env, [i \in 1..Len(lifetime_names) |->
                            PLifetime(lifetime_names[i].str)]), LAMBDA q :
    IF ~q.ok THEN Err(q.err, env)
    ELSE Bind(LowerTy(ty, q.val), LAMBDA t :
         IF ~t.ok THEN Err(t.err, env)
         ELSE Ok([tag |-> "ForAll",
                  num_binders |-> Len(lifetime_names),
                  ty |-> t.val], env)))

LowerTy(ty, env) ==
    CASE ty.tag = "Id" -> TyId(ty.name, env)
      [] ty.tag = "Apply" -> TyApply(ty.name, ty.args, env)
      [] ty.tag = "Projection" ->
            Try(LowerProjectionTy(ty.proj, env),
                LAMBDA r : Ok([tag |-> "Projection", proj |-> r.val], r.env))
      [] ty.tag = "UnselectedProjection" ->
            Try(LowerUnselectedProjectionTy(ty.proj, env),
                LAMBDA r : Ok([tag |-> "UnselectedProjection", proj |-> r.val], r.env))
      [] ty.tag = "ForAll" -> TyForAll(ty.lifetime_names, ty.ty, env)

LowerTraitBound(b, env) ==
    Try(lookup(env, b.trait_name), LAMBDA r :
        IF r.val.tag = "Parameter"
        THEN Err([kind |-> "NotTrait", name |-> b.trait_name], env)
        ELSE Bind(type_kind(env, r.val.id), LAMBDA k :
             IF k.sort # "Trait"
             THEN Err([kind |-> "NotTrait", name |-> b.trait_name], env)
             ELSE Try(LowerParameters(b.args_no_self, env), LAMBDA ps :
                  IF Len(ps.val) # Len(k.binders.binders)
                  THEN Err(Msg("wrong number of parameters"), ps.env)
                  ELSE Bind(CheckKindsZip("incorrect kind for trait parameter",
                                          k.binders.binders, ps.val), LAMBDA c :
                       IF ~c.ok THEN Err(c.err, ps.env)
                       ELSE Ok([trait_id |-> r.val.id, args_no_self |-> ps.val],
                               ps.env)))))

LowerTraitRef(tr, env) ==
    Try(LowerTraitBound([trait_name |-> tr.trait_name,
                         args_no_self |-> SubSeq(tr.args, 2, Len(tr.args))],
                        env), LAMBDA without_self :
        IF tr.args = <<>>
        THEN Err(Panic("index out of bounds"), without_self.env)
        ELSE Try(LowerParameter(tr.args[1], without_self.env), LAMBDA self_parameter :
             IF self_parameter.val.kind # "Ty"
             THEN Err(Panic("unwrap on None"), self_parameter.env)
             ELSE Bind(as_trait_ref(without_self.val, self_parameter.val.ty),
                       LAMBDA trait_ref :
                  Ok(trait_ref, trait_in_scope(self_parameter.env, trait_ref)))))

\* the trait reference's parameters before the projection's own arguments
ProjectionParameters_TraitFirst(args, trait_parameters) == trait_parameters \o args

\* args.extend(trait_parameters): the projection's own arguments, then the
\* trait reference's parameters
ProjectionParameters(args, trait_parameters) == args \o trait_parameters

LowerProjectionTy(p, env) ==
    Try(LowerTraitRef(p.trait_ref, env), LAMBDA tr :
    Bind(get_assoc_ty_info(tr.env, <<tr.val.trait_id, p.name.str>>), LAMBDA i :
        IF ~i.some
        THEN Err(Msg("no associated type defined in trait"), tr.env)
        ELSE Try(LowerParameters(p.args, tr.env), LAMBDA args :
             IF Len(args.val) # Len(i.info.addl_parameter_kinds)
             THEN Err(Msg("wrong number of parameters for associated type"),
                      args.env)
             ELSE Bind(CheckKindsZip("incorrect kind for associated type parameter",
                                     i.info.addl_parameter_kinds, args.val), LAMBDA c :
                  IF ~c.ok THEN Err(c.err, args.env)
                  ELSE Ok([associated_ty_id |-> i.info.id,
                           parameters |->
                               ProjectionParameters(args.val, tr.val.parameters)],
                          args.env)))))

LowerUnselectedProjectionTy(p, env) ==
    Try(LowerParameters(p.args, env), LAMBDA ps :
        Ok([type_name |-> p.name.str, parameters |-> ps.val], ps.env))

\* ------------------------------------------------------------------------
\* lowering.rs: where-clauses
\* ------------------------------------------------------------------------
\* the two atoms in the other order
ProjectionEqAtoms_Swapped(projection, ty, trait_ref) ==
    <<[tag |-> "Implemented", trait_ref |-> trait_ref],
      [tag |-> "ProjectionEq", projection |-> projection, ty |-> ty]>>

\* the vec! built for WhereClause::ProjectionEq
ProjectionEqAtoms(projection, ty, trait_ref) ==
    <<[tag |-> "ProjectionEq", projection |-> projection, ty |-> ty],
      [tag |-> "Implemented", trait_ref |-> trait_ref]>>

\* LowerWhereClause<ir::WhereClause> for WhereClause
LowerWhereClause(wc, env) ==
    IF wc.tag = "Implemented"
    THEN Try(LowerTraitRef(wc.trait_ref, env), LAMBDA tr :
             Ok(<<[tag |-> "Implemented", trait_ref |-> tr.val]>>, tr.env))
    ELSE Try(LowerProjectionTy(wc.projection, env), LAMBDA p :
         Try(LowerTy(wc.ty, p.env), LAMBDA t :
         Try(LowerTraitRef(wc.projection.trait_ref, t.env), LAMBDA tr :
         Ok(ProjectionEqAtoms(p.val, t.val, tr.val), tr.env))))

\* LowerWhereClause<ir::QuantifiedWhereClause> for QuantifiedWhereClause
LowerQuantifiedWhereClause(qwc, env) ==
    Try(in_binders(env,
                   [i \in 1..Len(qwc.parameter_kinds) |->
                       LowerParameterKind(qwc.parameter_kinds[i])],
                   LAMBDA e : LowerWhereClause(qwc.where_clause, e)),
        LAMBDA binders : Ok(BindersIntoIter(binders.val), binders.env))

\* LowerWhereClauseVec<ir::QuantifiedWhereClause> for [QuantifiedWhereClause]:
\* the atoms of the clauses are concatenated; the first error ends the walk
RECURSIVE LowerWhereClauseVec(_, _)
LowerWhereClauseVec(wcs, env) ==
    IF wcs = <<>> THEN Ok(<<>>, env)
    ELSE Try(LowerQuantifiedWhereClause(Head(wcs), env), LAMBDA h :
         Try(LowerWhereClauseVec(Tail(wcs), h.env), LAMBDA t :
         Ok(h.val \o t.val, t.env)))

\* LowerWhereClauses::lower_where_clauses
lower_where_clauses(item, env) == LowerWhereClauseVec(item.where_clauses, env)

\* ------------------------------------------------------------------------
\* lowering.rs: domain goals, leaf goals, goals, custom clauses
\* ------------------------------------------------------------------------
\* the domain goals that carry one type
TyGoalTags == {"TyWellFormed", "TyFromEnv", "IsLocal", "IsExternal", "IsDeeplyExternal"}
\* the domain goals that carry one trait reference
TraitRefGoalTags == {"TraitRefWellFormed", "TraitRefFromEnv", "LocalImplAllowed"}

IrTyGoal(tag, t) ==
    CASE tag = "TyWellFormed" -> [tag |-> "WellFormed", arg |-> [tag |-> "Ty", ty |-> t]]
      [] tag = "TyFromEnv" -> [tag |-> "FromEnv", arg |-> [tag |-> "Ty", ty |-> t]]
      [] OTHER -> [tag |-> tag, ty |-> t]

IrTraitRefGoal(tag, tr) ==
    CASE tag = "TraitRefWellFormed" ->
            [tag |-> "WellFormed", arg |-> [tag |-> "Trait", trait_ref |-> tr]]
      [] tag = "TraitRefFromEnv" ->
            [tag |-> "FromEnv", arg |-> [tag |-> "Trait", trait_ref |-> tr]]
      [] OTHER -> [tag |-> tag, trait_ref |-> tr]

LowerDomainGoal(g, env) ==
    CASE g.tag = "Holds" ->
            Try(LowerWhereClause(g.where_clause, env), LAMBDA w :
                Ok([i \in 1..Len(w.val) |->
                       [tag |-> "Holds", where_clause |-> w.val[i]]], w.env))
      [] g.tag = "Normalize" ->
            Try(LowerProjectionTy(g.projection, env), LAMBDA p :
            Try(LowerTy(g.ty, p.env), LAMBDA t :
                Ok(<<[tag |-> "Normalize", projection |-> p.val,
                      ty |-> t.val]>>, t.env)))
      [] g.tag \in TyGoalTags ->
            Try(LowerTy(g.ty, env), LAMBDA t : Ok(<<IrTyGoal(g.tag, t.val)>>, t.env))
      [] g.tag \in TraitRefGoalTags ->
            Try(LowerTraitRef(g.trait_ref, env),
                LAMBDA tr : Ok(<<IrTraitRefGoal(g.tag, tr.val)>>, tr.env))
      [] g.tag = "TraitInScope" ->
            Try(lookup(env, g.trait_name), LAMBDA r :
                IF r.val.tag = "Parameter"
                THEN Err([kind |-> "NotTrait", name |-> g.trait_name], env)
                ELSE IF type_kind(env, r.val.id).sort # "Trait"
                THEN Err([kind |-> "NotTrait", name |-> g.trait_name], env)
                ELSE Ok(<<[tag |-> "InScope", id |-> r.val.id]>>, env))
      [] g.tag = "Derefs" ->
            Try(LowerTy(g.source, env), LAMBDA a :
            Try(LowerTy(g.target, a.env), LAMBDA b :
                Ok(<<[tag |-> "Derefs", source |-> a.val,
                      target |-> b.val]>>, b.env)))

LowerLeafGoal(l, env) ==
    CASE l.tag = "DomainGoal" ->
            Try(LowerDomainGoal(l.goal, env), LAMBDA g :
                Ok([i \in 1..Len(g.val) |->
                       [tag |-> "DomainGoal", goal |-> g.val[i]]], g.env))
      [] l.tag = "UnifyTys" ->
            Try(LowerTy(l.a, env), LAMBDA a :
            Try(LowerTy(l.b, a.env), LAMBDA b :
                Ok(<<[tag |-> "EqGoal", a |-> IrTyParam(a.val),
                      b |-> IrTyParam(b.val)]>>, b.env)))
      [] l.tag = "UnifyLifetimes" ->
            Try(LowerLifetime(l.a, env), LAMBDA a :
            Try(LowerLifetime(l.b, a.env), LAMBDA b :
                Ok(<<[tag |-> "EqGoal", a |-> IrLifetimeParam(a.val),
                      b |-> IrLifetimeParam(b.val)]>>, b.env)))

\* leaves.fold1(|goal, leaf| And(goal, leaf)): a left fold
RECURSIVE FoldAnd(_, _)
FoldAnd(acc, leaves) ==
    IF leaves = <<>> THEN acc
    ELSE FoldAnd([tag |-> "And", g1 |-> acc,
                  g2 |-> [tag |-> "Leaf", leaf |-> Head(leaves)]], Tail(leaves))

\* ir::ProgramClause::into_from_env_clause
into_from_env_clause(c) == [tag |-> "FromEnvClause", clause |-> c]

\* the conditions left in textual order
ReverseConditions_Kept(conditions) == conditions

\* conditions.reverse()
ReverseConditions(conditions) == Reverse(conditions)

\* one ProgramClauseImplication per consequence, each with a clone of the
\* conditions
Implications(consequences, conditions) ==
    [i \in 1..Len(consequences) |->
        [consequence |-> consequences[i], conditions |-> conditions]]

RECURSIVE LowerGoal(_, _)
RECURSIVE LowerGoals(_, _)
RECURSIVE lower_quantified(_, _, _, _)
RECURSIVE lower_clause(_, _)
RECURSIVE LowerHypotheses(_, _)

\* self.conditions.iter().map(|g| g.lower(env)).collect::<Result<_>>()
LowerGoals(gs, env) ==
    IF gs = <<>> THEN Ok(<<>>, env)
    ELSE Try(LowerGoal(Head(gs), env), LAMBDA h :
         Try(LowerGoals(Tail(gs), h.env), LAMBDA t :
         Ok(<<h.val>> \o t.val, t.env)))

\* LowerClause for Clause
lower_clause(c, env) ==
    Try(in_binders(env, all_parameters(c),
            LAMBDA e :
                Try(LowerDomainGoal(c.consequence, e), LAMBDA consequences :
                Try(LowerGoals(c.conditions, consequences.env), LAMBDA conditions :
                    Ok(Implications(consequences.val,
                                    ReverseConditions(conditions.val)),
                       conditions.env)))),
        LAMBDA implications :
            Bind(BindersIntoIter(implications.val), LAMBDA bs :
                Ok([i \in 1..Len(bs) |->
                       IF bs[i].binders = <<>>
                       THEN [tag |-> "Implies", value |-> bs[i].value]
                       ELSE [tag |-> "ForAll", binders |-> bs[i].binders,
                             value |-> bs[i].value]],
                   implications.env)))

\* hyp.into_iter().flat_map(|h| h.lower_clause(env).apply_result())
\*    .map(|r| r.map(|h| h.into_from_env_clause())).collect()
LowerHypotheses(hyp, env) ==
    IF hyp = <<>> THEN Ok(<<>>, env)
    ELSE Try(lower_clause(Head(hyp), env), LAMBDA h :
         Try(LowerHypotheses(Tail(hyp), h.env), LAMBDA t :
         Ok([i \in 1..Len(h.val) |-> into_from_env_clause(h.val[i])]
                \o t.val, t.env)))

\* LowerQuantifiedGoal::lower_quantified
lower_quantified(g, env, quantifier_kind, parameter_kinds) ==
    IF parameter_kinds = <<>> THEN LowerGoal(g, env)
    ELSE Try(in_binders(env,
                        [i \in 1..Len(parameter_kinds) |->
                            LowerParameterKind(parameter_kinds[i])],
                        LAMBDA e : LowerGoal(g, e)),
             LAMBDA subgoal :
                Ok([tag |-> "Quantified", kind |-> quantifier_kind,
                    subgoal |-> subgoal.val], subgoal.env))

\* LowerGoal<Env> for Goal
LowerGoal(g, env) ==
    CASE g.tag = "ForAll" -> lower_quantified(g.goal, env, "ForAll", g.ids)
      [] g.tag = "Exists" -> lower_quantified(g.goal, env, "Exists", g.ids)
      [] g.tag = "Implies" ->
            Try(LowerHypotheses(g.hyp, env), LAMBDA where_clauses :
            Try(LowerGoal(g.goal, where_clauses.env), LAMBDA b :
                Ok([tag |-> "Implies", hyp |-> where_clauses.val,
                    goal |-> b.val], b.env)))
      [] g.tag = "And" ->
            Try(LowerGoal(g.g1, env), LAMBDA a :
            Try(LowerGoal(g.g2, a.env), LAMBDA b :
                Ok([tag |-> "And", g1 |-> a.val, g2 |-> b.val], b.env)))
      [] g.tag = "Not" ->
            Try(LowerGoal(g.goal, env),
                LAMBDA a : Ok([tag |-> "Not", goal |-> a.val], a.env))
      [] g.tag = "Leaf" ->
            Try(LowerLeafGoal(g.leaf, env), LAMBDA l :
                IF l.val = <<>> THEN Err(Panic("at least one goal"), l.env)
                ELSE Ok(FoldAnd([tag |-> "Leaf", leaf |-> Head(l.val)], Tail(l.val)),
                        l.env))

\* ------------------------------------------------------------------------
\* lowering.rs: inline bounds
\* ------------------------------------------------------------------------
LowerProjectionEqBound(b, env) ==
    Try(LowerTraitBound(b.trait_bound, env), LAMBDA tb :
    Bind(get_assoc_ty_info(tb.env, <<tb.val.trait_id, b.name.str>>), LAMBDA i :
        IF ~i.some
        THEN Err(Msg("no associated type defined in trait"), tb.env)
        ELSE Try(LowerParameters(b.args, tb.env), LAMBDA args :
             IF Len(args.val) # Len(i.info.addl_parameter_kinds)
             THEN Err(Msg("wrong number of parameters for associated type"),
                      args.env)
             ELSE Bind(CheckKindsZip("incorrect kind for associated type parameter",
                                     i.info.addl_parameter_kinds, args.val), LAMBDA c :
                  IF ~c.ok THEN Err(c.err, args.env)
                  ELSE Try(LowerTy(b.value, args.env), LAMBDA v :
                       Ok([trait_bound |-> tb.val,
                           associated_ty_id |-> i.info.id,
                           parameters |-> args.val,
                           value |-> v.val], v.env))))))

LowerInlineBound(b, env) ==
    Try(IF b.tag = "TraitBound" THEN LowerTraitBound(b.bound, env)
        ELSE LowerProjectionEqBound(b.bound, env),
        LAMBDA r : Ok([tag |-> b.tag, bound |-> r.val], r.env))

RECURSIVE LowerInlineBounds(_, _)
LowerInlineBounds(bs, env) ==
    IF bs = <<>> THEN Ok(<<>>, env)
    ELSE Try(LowerInlineBound(Head(bs), env), LAMBDA h :
         Try(LowerInlineBounds(Tail(bs), h.env), LAMBDA t :
         Ok(<<h.val>> \o t.val, t.env)))

\* ------------------------------------------------------------------------
\* lowering.rs: items
\* ------------------------------------------------------------------------
\* LowerTypeKind for StructDefn and for TraitDefn (the trait's binders leave
\* Self out)
lower_type_kind(d) ==
    IF d.tag = "StructDefn"
    THEN [sort |-> "Struct", name |-> d.name.str,
          binders |-> Binders(anonymize(all_parameters(d)), <<>>)]
    ELSE [sort |-> "Trait", name |-> d.name.str,
          binders |-> Binders(anonymize([i \in 1..Len(d.parameter_kinds) |->
                                            LowerParameterKind(d.parameter_kinds[i])]),
                              <<>>)]

\* ir::ApplicationTy::len_type_parameters
len_type_parameters(ty) ==
    Cardinality({i \in DOMAIN ty.parameters : ty.parameters[i].kind = "Ty"})

\* self.fields.iter().map(|f| f.ty.lower(env)).collect()
RECURSIVE LowerFields(_, _)
LowerFields(fs, env) ==
    IF fs = <<>> THEN Ok(<<>>, env)
    ELSE Try(LowerTy(Head(fs).ty, env), LAMBDA h :
         Try(LowerFields(Tail(fs), h.env), LAMBDA t :
         Ok(<<h.val>> \o t.val, t.env)))

\* LowerStructDefn for StructDefn.  The fields are lowered first, but their
\* error is raised after that of the where-clauses.
lower_struct(d, item_id, env) ==
    Try(in_binders(env, all_parameters(d),
            LAMBDA e :
                Bind([name |-> item_id, parameters |-> parameter_refs(d)],
                     LAMBDA self_ty :
                IF d.flags.fundamental /\ len_type_parameters(self_ty) # 1
                THEN Err(Msg("Only fundamental types with a single parameter are supported"), e)
                ELSE Bind(LowerFields(d.fields, e), LAMBDA fields :
                     Try(lower_where_clauses(d, fields.env), LAMBDA where_clauses :
                         IF ~fields.ok
                         THEN Err(fields.err, where_clauses.env)
                         ELSE Ok([self_ty |-> self_ty,
                                  fields |-> fields.val,
                                  where_clauses |-> where_clauses.val,
                                  flags |-> [external |-> d.flags.external,
                                             fundamental |-> d.flags.fundamental]],
                                 where_clauses.env))))),
        LAMBDA r : Ok([binders |-> r.val], r.env))

\* LowerTrait for TraitDefn
\* the where-clauses lowered before the checks on an auto trait
lower_trait_WhereClausesFirst(d, trait_id, env) ==
    Try(in_binders(env, all_parameters(d),
            LAMBDA e :
                Try(lower_where_clauses(d, e), LAMBDA where_clauses :
                IF d.flags.auto /\ Len(parameter_refs(d)) > 1
                THEN Err(Msg("auto trait cannot have parameters"), e)
                ELSE IF d.flags.auto /\ d.where_clauses # <<>>
                THEN Err(Msg("auto trait cannot have where clauses"), e)
                ELSE Ok([trait_ref |-> [trait_id |-> trait_id,
                                        parameters |-> parameter_refs(d)],
                         where_clauses |-> where_clauses.val,
                         flags |-> [auto |-> d.flags.auto,
                                    marker |-> d.flags.marker,
                                    external |-> d.flags.external,
                                    deref |-> d.flags.deref]],
                        where_clauses.env))),
        LAMBDA r : Ok([binders |-> r.val], r.env))

lower_trait(d, trait_id, env) ==
    Try(in_binders(env, all_parameters(d),
            LAMBDA e :
                Bind([trait_id |-> trait_id, parameters |-> parameter_refs(d)],
                     LAMBDA trait_ref :
                IF d.flags.auto /\ Len(trait_ref.parameters) > 1
                THEN Err(Msg("auto trait cannot have parameters"), e)
                ELSE IF d.flags.auto /\ d.where_clauses # <<>>
                THEN Err(Msg("auto trait cannot have where clauses"), e)
                ELSE Try(lower_where_clauses(d, e), LAMBDA where_clauses :
                     Ok([trait_ref |-> trait_ref,
                         where_clauses |-> where_clauses.val,
                         flags |-> [auto |-> d.flags.auto,
                                    marker |-> d.flags.marker,
                                    external |-> d.flags.external,
                                    deref |-> d.flags.deref]],
                        where_clauses.env)))),
        LAMBDA r : Ok([binders |-> r.val], r.env))

\* LowerAssocTyValue for AssocTyValue: the info is unwrapped
LowerAssocTyValue(v, trait_id, env) ==
    Bind(get_assoc_ty_info(env, <<trait_id, v.name.str>>), LAMBDA i :
        IF ~i.some THEN Err(Panic("unwrap on None"), env)
        ELSE Try(in_binders(env, all_parameters(v),
                     LAMBDA e : Try(LowerTy(v.value, e),
                                    LAMBDA t : Ok([ty |-> t.val], t.env))),
                 LAMBDA value :
                     Ok([associated_ty_id |-> i.info.id, value |-> value.val],
                        value.env)))

RECURSIVE LowerAssocTyValues(_, _, _)
LowerAssocTyValues(vs, trait_id, env) ==
    IF vs = <<>> THEN Ok(<<>>, env)
    ELSE Try(LowerAssocTyValue(Head(vs), trait_id, env), LAMBDA h :
         Try(LowerAssocTyValues(Tail(vs), trait_id, h.env), LAMBDA t :
         Ok(<<h.val>> \o t.val, t.env)))

\* LowerPolarizedTraitRef for PolarizedTraitRef
LowerPolarizedTraitRef(p, env) ==
    Try(LowerTraitRef(p.trait_ref, env), LAMBDA tr :
        Ok([polarity |-> p.polarity, trait_ref |-> tr.val], tr.env))

\* LowerImpl for Impl
lower_impl(d, empty_env) ==
    Try(in_binders(empty_env, all_parameters(d),
            LAMBDA e :
                Try(LowerPolarizedTraitRef(d.trait_ref, e), LAMBDA trait_ref :
                IF trait_ref.val.polarity # "Positive" /\ d.assoc_ty_values # <<>>
                THEN Err(Msg("negative impls cannot define associated values"),
                         trait_ref.env)
                ELSE Try(lower_where_clauses(d, trait_ref.env), LAMBDA where_clauses :
                     Try(LowerAssocTyValues(d.assoc_ty_values,
                                            trait_ref.val.trait_ref.trait_id,
                                            where_clauses.env), LAMBDA vs :
                         Ok([trait_ref |-> trait_ref.val,
                             where_clauses |-> where_clauses.val,
                             associated_ty_values |-> vs.val,
                             specialization_priority |-> 0],
                            vs.env))))),
        LAMBDA r : Ok([binders |-> r.val], r.env))

\* ------------------------------------------------------------------------
\* lowering.rs: the steps of LowerProgram::lower
\* ------------------------------------------------------------------------
\* every definition of a trait is given the same id
RECURSIVE InsertAssocTyInfos_SameId(_, _, _, _)
InsertAssocTyInfos_SameId(defns, item_id, infos, next) ==
    IF defns = <<>> THEN [infos |-> infos, index |-> next, ids |-> <<>>]
    ELSE LET info == [id |-> next,
                      addl_parameter_kinds |-> all_parameters(Head(defns))]
             rest == InsertAssocTyInfos_SameId(Tail(defns), item_id,
                         MapInsert(infos, <<item_id, Head(defns).name.str>>, info),
                         next)
         IN  [rest EXCEPT !.ids = <<next>> \o @]

\* for defn in &d.assoc_ty_defns { ... next_item_id() ... insert ... }
RECURSIVE InsertAssocTyInfos(_, _, _, _)
InsertAssocTyInfos(defns, item_id, infos, next) ==
    IF defns = <<>> THEN [infos |-> infos, index |-> next, ids |-> <<>>]
    ELSE LET info == [id |-> next,
                      addl_parameter_kinds |-> all_parameters(Head(defns))]
             rest == InsertAssocTyInfos(Tail(defns), item_id,
                         MapInsert(infos, <<item_id, Head(defns).name.str>>, info),
                         next + 1)
         IN  [rest EXCEPT !.ids = <<next>> \o @]

\* the trait's parameters before those of the definition
AssocTyParameterKinds_TraitFirst(defn, d) == all_parameters(d) \o all_parameters(defn)

\* parameter_kinds of an associated-type datum
AssocTyParameterKinds(defn, d) == all_parameters(defn) \o all_parameters(d)

\* for defn in &d.assoc_ty_defns { ... associated_ty_data.insert(info.id, ..) }
\* envs records, for each datum, the parameter map its bounds and
\* where-clauses were lowered in.
RECURSIVE LowerAssocTyDefns(_, _, _, _, _, _)
LowerAssocTyDefns(defns, d, item_id, empty_env, data, envs) ==
    IF defns = <<>> THEN Ok([data |-> data, envs |-> envs], empty_env)
    ELSE Bind(Head(defns), LAMBDA defn :
         Bind(empty_env.associated_ty_infos[<<item_id, defn.name.str>>], LAMBDA info :
         Bind(AssocTyParameterKinds(defn, d), LAMBDA parameter_kinds :
         Bind(introduce(empty_env, parameter_kinds), LAMBDA env :
         IF ~env.ok THEN Err(env.err, empty_env)
         ELSE Bind(LowerInlineBounds(defn.bounds, env.val), LAMBDA bounds :
              IF ~bounds.ok THEN Err(bounds.err, empty_env)
              ELSE Bind(LowerWhereClauseVec(defn.where_clauses, bounds.env), LAMBDA wcs :
                   IF ~wcs.ok THEN Err(wcs.err, empty_env)
                   ELSE LowerAssocTyDefns(Tail(defns), d, item_id, empty_env,
                            MapInsert(data, info.id,
                                [trait_id |-> item_id,
                                 id |-> info.id,
                                 name |-> defn.name.str,
                                 parameter_kinds |-> parameter_kinds,
                                 bounds |-> bounds.val,
                                 where_clauses |-> wcs.val]),
                            MapInsert(envs, info.id, env.val.parameter_map))))))))

DerefTrait == "DerefTrait"

\* a plain insert: the later trait replaces the earlier one
RegisterDeref_Overwrite(items, item_id) ==
    [ok |-> TRUE, val |-> MapInsert(items, DerefTrait, item_id)]

\* match lang_items.entry(DerefTrait) { Vacant => insert, Occupied => bail }
RegisterDeref(items, item_id) ==
    IF DerefTrait \in DOMAIN items
    THEN [ok |-> FALSE, err |-> [kind |-> "DuplicateLangItem", item |-> DerefTrait]]
    ELSE [ok |-> TRUE, val |-> MapInsert(items, DerefTrait, item_id)]

\* ------------------------------------------------------------------------
\* Syntax trees handed to the lowerers (chalk_parse::ast values)
\* ------------------------------------------------------------------------
ATyId(n) == [tag |-> "Id", name |-> Ident(n)]
ATyApply(n, args) == [tag |-> "Apply", name |-> Ident(n), args |-> args]
ATyForAll(names, ty) ==
    [tag |-> "ForAll",
     lifetime_names |-> [i \in 1..Len(names) |-> Ident(names[i])],
     ty |-> ty]
AParamTy(t) == [kind |-> "Ty", ty |-> t]
AParamLifetime(n) == [kind |-> "Lifetime", lifetime |-> [tag |-> "Id", name |-> Ident(n)]]
APk(k, n) == [kind |-> k, name |-> Ident(n)]
ATraitRef(n, args) == [trait_name |-> Ident(n), args |-> args]
AProjection(tr, n, args) == [trait_ref |-> tr, name |-> Ident(n), args |-> args]
ATyProjection(tr, n, args) == [tag |-> "Projection", proj |-> AProjection(tr, n, args)]
ATyUnselected(n, args) ==
    [tag |-> "UnselectedProjection", proj |-> [name |-> Ident(n), args |-> args]]
AImplemented(tr) == [tag |-> "Implemented", trait_ref |-> tr]
AProjectionEq(p, ty) == [tag |-> "ProjectionEq", projection |-> p, ty |-> ty]
AQwc(pks, wc) == [parameter_kinds |-> pks, where_clause |-> wc]
AHolds(wc) == [tag |-> "Holds", where_clause |-> wc]
ALeaf(dg) == [tag |-> "Leaf", leaf |-> [tag |-> "DomainGoal", goal |-> dg]]
AClause(pks, consequence, conditions) ==
    [tag |-> "Clause", parameter_kinds |-> pks, consequence |-> consequence,
     conditions |-> conditions]
NoStructFlags == [external |-> FALSE, fundamental |-> FALSE]
NoTraitFlags == [auto |-> FALSE, marker |-> FALSE, external |-> FALSE, deref |-> FALSE]
AStruct(n, pks, fields, wcs, flags) ==
    [tag |-> "StructDefn", name |-> Ident(n), parameter_kinds |-> pks,
     fields |-> fields, where_clauses |-> wcs, flags |-> flags]
ATrait(n, pks, wcs, defns, flags) ==
    [tag |-> "TraitDefn", name |-> Ident(n), parameter_kinds |-> pks,
     where_clauses |-> wcs, assoc_ty_defns |-> defns, flags |-> flags]
AAssocTyDefn(n, pks, bounds, wcs) ==
    [tag |-> "AssocTyDefn", name |-> Ident(n), parameter_kinds |-> pks,
     bounds |-> bounds, where_clauses |-> wcs]
AAssocTyValue(n, pks, value) ==
    [tag |-> "AssocTyValue", name |-> Ident(n), parameter_kinds |-> pks,
     value |-> value]
AImpl(pks, polarity, tr, wcs, values) ==
    [tag |-> "Impl", parameter_kinds |-> pks,
     trait_ref |-> [polarity |-> polarity, trait_ref |-> tr],
     where_clauses |-> wcs, assoc_ty_values |-> values]

\* T: Iterator, T: Stream, <T as Iterator>::Item
TIterator == ATraitRef("Iterator", <<AParamTy(ATyId("T"))>>)
UIterator == ATraitRef("Iterator", <<AParamTy(ATyId("U"))>>)
TStream == ATraitRef("Stream", <<AParamTy(ATyId("T"))>>)
TItem == AProjection(TIterator, "Item", <<>>)

\* ------------------------------------------------------------------------
\* lowering.rs: one iteration of each table-building loop of lower
\* ------------------------------------------------------------------------
\* the loop body of "Create ids for associated types"
AssocTyInfoItem(item, item_id, infos, next) ==
    IF item.tag # "TraitDefn"
    THEN [ok |-> TRUE, infos |-> infos, index |-> next, ids |-> <<>>]
    ELSE IF item.flags.auto /\ item.assoc_ty_defns # <<>>
    THEN [ok |-> FALSE, err |-> Msg("auto trait cannot define associated types")]
    ELSE LET r == InsertAssocTyInfos(item.assoc_ty_defns, item_id, infos, next)
         IN  [ok |-> TRUE, infos |-> r.infos, index |-> r.index, ids |-> r.ids]

\* the loop body that fills type_ids and type_kinds
TypeKindItem(item, item_id, tids, tkinds) ==
    IF item.tag \in {"StructDefn", "TraitDefn"}
    THEN LET k == lower_type_kind(item)
         IN  [type_ids |-> MapInsert(tids, k.name, item_id),
              type_kinds |-> MapInsert(tkinds, item_id, k)]
    ELSE [type_ids |-> tids, type_kinds |-> tkinds]

\* item_ids: one next_item_id() per item, in order, counting from 0
ItemIds(items) == [i \in 1..Len(items) |-> i - 1]

\* The tables the loops above build for a program without auto traits
RECURSIVE AssocTyInfosFrom(_, _, _, _)
AssocTyInfosFrom(items, k, infos, next) ==
    IF k > Len(items) THEN infos
    ELSE LET r == AssocTyInfoItem(items[k], ItemIds(items)[k], infos, next)
         IN  AssocTyInfosFrom(items, k + 1, r.infos, r.index)

RECURSIVE TypeTablesFrom(_, _, _, _)
TypeTablesFrom(items, k, tids, tkinds) ==
    IF k > Len(items) THEN [type_ids |-> tids, type_kinds |-> tkinds]
    ELSE LET r == TypeKindItem(items[k], ItemIds(items)[k], tids, tkinds)
         IN  TypeTablesFrom(items, k + 1, r.type_ids, r.type_kinds)

\* ------------------------------------------------------------------------
\* The program whose tables the environments of Spec refer to:
\*   struct T { }  struct Foo<X> { }  struct Ref<'x> { }
\*   trait Iterator { type Item; }
\*   trait Stream<S> { type Item; type Out<Y>; }
\* ------------------------------------------------------------------------
SampleProgram ==
    <<AStruct("T", <<>>, <<>>, <<>>, NoStructFlags),
      AStruct("Foo", <<APk("Ty", "X")>>, <<>>, <<>>, NoStructFlags),
      AStruct("Ref", <<APk("Lifetime", "'x")>>, <<>>, <<>>, NoStructFlags),
      ATrait("Iterator", <<>>, <<>>,
             <<AAssocTyDefn("Item", <<>>, <<>>, <<>>)>>, NoTraitFlags),
      ATrait("Stream", <<APk("Ty", "S")>>, <<>>,
             <<AAssocTyDefn("Item", <<>>, <<>>, <<>>),
               AAssocTyDefn("Out", <<APk("Ty", "Y")>>, <<>>, <<>>)>>, NoTraitFlags)>>

SampleInfos == AssocTyInfosFrom(SampleProgram, 1, EmptyMap, Len(SampleProgram))
SampleTypes == TypeTablesFrom(SampleProgram, 1, EmptyMap, EmptyMap)
SampleEnv == EnvEmpty(SampleTypes.type_ids, SampleTypes.type_kinds, SampleInfos)

\* ------------------------------------------------------------------------
\* Inputs of Spec
\* ------------------------------------------------------------------------
BinderKeys == {PTy("T"), PTy("U"), PLifetime("'a")}

BinderLists == UNION {[1..n -> BinderKeys] : n \in 0..MaxBinders}

NameInputs == {Ident("T"), Ident("U"), Ident("'a"), Ident("Foo"), Ident("Nope")}

TyInputs ==
    {ATyId("T"), ATyId("U"), ATyId("Foo"),
     ATyApply("Foo", <<AParamTy(ATyId("U"))>>),
     ATyApply("Foo", <<AParamLifetime("'a")>>),
     ATyApply("Ref", <<AParamLifetime("'a")>>),
     ATyApply("T", <<>>),
     ATyApply("Foo", <<AParamTy(ATyId("Nope")), AParamLifetime("'a")>>),
     ATyForAll(<<"'b">>, ATyApply("Foo", <<AParamTy(ATyId("T"))>>)),
     ATyForAll(<<"'a">>, ATyApply("Ref", <<AParamLifetime("'a")>>)),
     ATyForAll(<<"'b">>, ATyForAll(<<"'c", "'d">>, ATyId("U"))),
     ATyProjection(TIterator, "Item", <<>>),
     ATyProjection(ATraitRef("Stream", <<AParamTy(ATyId("T")), AParamTy(ATyId("U"))>>),
                   "Out", <<AParamTy(ATyApply("Foo", <<AParamTy(ATyId("U"))>>))>>),
     ATyProjection(TIterator, "Nope", <<>>),
     ATyProjection(TIterator, "Item", <<AParamTy(ATyId("T"))>>),
     ATyProjection(ATraitRef("Stream", <<AParamTy(ATyId("T")), AParamTy(ATyId("U"))>>),
                   "Out", <<AParamLifetime("'a")>>),
     ATyUnselected("Item", <<>>)}

WhereClauseInputs ==
    {AImplemented(TIterator),
     AImplemented(ATraitRef("Foo", <<AParamTy(ATyId("T"))>>)),
     AImplemented(ATraitRef("Stream", <<AParamTy(ATyId("T")), AParamTy(ATyId("U"))>>)),
     AProjectionEq(TItem, ATyId("U")),
     AProjectionEq(TItem, ATyId("Nope")),
     AProjectionEq(AProjection(TIterator, "Nope", <<>>), ATyId("T")),
     AProjectionEq(AProjection(ATraitRef("Stream",
                                         <<AParamTy(ATyId("T")), AParamTy(ATyId("U"))>>),
                               "Out", <<AParamTy(ATyId("T"))>>),
                   ATyApply("Foo", <<AParamTy(ATyId("T"))>>))}

\* ir::UnselectedProjectionTy values handed to resolve_unselected_projection_ty
UnselectedInputs ==
    {[type_name |-> "Item", parameters |-> <<>>],
     [type_name |-> "Out", parameters |-> <<IrLifetimeParam(IrVar(0))>>],
     [type_name |-> "Nope", parameters |-> <<>>]}

GoalT == ALeaf(AHolds(AImplemented(TIterator)))
GoalU == ALeaf(AHolds(AImplemented(UIterator)))
GoalEq == ALeaf(AHolds(AProjectionEq(TItem, ATyId("U"))))
GoalBad == ALeaf([tag |-> "TyWellFormed", ty |-> ATyId("Nope")])
GoalExists ==
    [tag |-> "Exists", ids |-> <<APk("Ty", "W")>>,
     goal |-> [tag |-> "Leaf",
               leaf |-> [tag |-> "UnifyTys", a |-> ATyId("W"), b |-> ATyId("T")]]]
GoalImplies ==
    [tag |-> "Implies",
     hyp |-> <<AClause(<<>>, AHolds(AImplemented(TIterator)), <<>>)>>,
     goal |-> [tag |-> "Not", goal |-> GoalT]]

ClauseInputs ==
    {AClause(<<>>, AHolds(AImplemented(TIterator)), <<GoalT, GoalU>>),
     AClause(<<APk("Ty", "V")>>, AHolds(AProjectionEq(TItem, ATyId("V"))),
             <<GoalU, GoalT, GoalEq>>),
     AClause(<<APk("Ty", "T")>>, AHolds(AImplemented(TIterator)), <<GoalT>>),
     AClause(<<>>, [tag |-> "TyWellFormed", ty |-> ATyId("T")], <<GoalT, GoalBad>>),
     AClause(<<APk("Lifetime", "'z")>>, [tag |-> "TraitInScope", trait_name |-> Ident("Iterator")],
             <<GoalExists, GoalImplies>>),
     AClause(<<>>, AHolds(AProjectionEq(TItem, ATyId("T"))), <<>>)}

\* ------------------------------------------------------------------------
\* State
\* ------------------------------------------------------------------------
VARIABLES
    stack,                \* the Envs of the in_binders calls in progress; the last is current
    out,                  \* the last operation applied to the current Env and its result
    program,              \* self.items
    pc,                   \* the loop of lower that is running
    cur,                  \* the position of that loop in items
    index,                \* the counter behind next_item_id
    item_ids,
    associated_ty_infos,
    type_ids,
    type_kinds,
    struct_data,
    trait_data,
    impl_data,
    associated_ty_data,
    custom_clauses,
    lang_items,
    result,               \* what lower returned, once it has
    assoc_ty_ids,         \* the next_item_id() calls made for associated-type definitions
    assoc_ty_envs         \* per datum id, the parameter map its bounds were lowered in

envVars == <<stack, out>>
lowerVars == <<program, pc, cur, index, item_ids, associated_ty_infos, type_ids,
               type_kinds, struct_data, trait_data, impl_data, associated_ty_data,
               custom_clauses, lang_items, result, assoc_ty_ids, assoc_ty_envs>>
vars == <<stack, out, program, pc, cur, index, item_ids, associated_ty_infos, type_ids,
          type_kinds, struct_data, trait_data, impl_data, associated_ty_data,
          custom_clauses, lang_items, result, assoc_ty_ids, assoc_ty_envs>>

None == [op |-> "none"]

\* the locals of lower before its first statement
LowerStart(items) ==
    /\ program = items
    /\ pc = "item_ids"
    /\ cur = 1
    /\ index = 0
    /\ item_ids = <<>>
    /\ associated_ty_infos = EmptyMap
    /\ type_ids = EmptyMap
    /\ type_kinds = EmptyMap
    /\ struct_data = EmptyMap
    /\ trait_data = EmptyMap
    /\ impl_data = EmptyMap
    /\ associated_ty_data = EmptyMap
    /\ custom_clauses = <<>>
    /\ lang_items = EmptyMap
    /\ result = None
    /\ assoc_ty_ids = <<>>
    /\ assoc_ty_envs = EmptyMap

\* ------------------------------------------------------------------------
\* Spec: an Env under nested in_binders calls, and the lowerers applied to it
\* ------------------------------------------------------------------------
Top == stack[Len(stack)]

\* the parameters introduced by the binders around the current position
Introduced == SeqSum([i \in 1..Len(stack) |-> Len(stack[i].binders)])

Init ==
    /\ stack = <<[env |-> SampleEnv, binders |-> <<>>, saved |-> SampleEnv]>>
    /\ out = None
    /\ LowerStart(<<>>)

SetTop(env) == [stack EXCEPT ![Len(stack)].env = env]

\* Env::introduce called on the current Env (as Ty::ForAll and the
\* associated-type loop do): the result is a new value
Introduce(binders) ==
    /\ LET r == introduce(Top.env, binders)
       IN  /\ out' = [op |-> "introduce", recv |-> Top.env, binders |-> binders,
                      res |-> r]
           /\ stack' = SetTop(r.env)
    /\ UNCHANGED lowerVars

\* in_binders up to the call of op
InBindersEnter(binders) ==
    /\ Len(stack) <= MaxDepth
    /\ LET r == introduce(Top.env, binders)
       IN  /\ out' = [op |-> "in_binders_enter", recv |-> Top.env,
                      binders |-> binders, res |-> r]
           /\ stack' = IF r.ok
                       THEN Append(SetTop(r.env), [env |-> r.val, binders |-> binders,
                                                   saved |-> Top.env])
                       ELSE SetTop(r.env)
    /\ UNCHANGED lowerVars

\* in_binders from the return of op
InBindersExit ==
    /\ Len(stack) > 1
    /\ stack' = SubSeq(stack, 1, Len(stack) - 1)
    /\ out' = [op |-> "in_binders", binders |-> anonymize(Top.binders),
               saved |-> Top.saved, callee |-> Top.env]
    /\ UNCHANGED lowerVars

Lookup(name) ==
    /\ out' = [op |-> "lookup", name |-> name, res |-> lookup(Top.env, name),
               bound |-> Introduced]
    /\ UNCHANGED <<stack, lowerVars>>

LookupLifetime(name) ==
    /\ out' = [op |-> "lookup_lifetime", name |-> name,
               res |-> lookup_lifetime(Top.env, name), bound |-> Introduced]
    /\ UNCHANGED <<stack, lowerVars>>

\* a lowerer taking &mut Env leaves its registrations in the current Env
Applied(op, arg, r) ==
    /\ out' = [op |-> op, arg |-> arg, recv |-> Top.env, res |-> r,
               bound |-> Introduced]
    /\ stack' = SetTop(r.env)
    /\ UNCHANGED lowerVars

LowerTyStep(ty) == Applied("Ty", ty, LowerTy(ty, Top.env))

LowerWhereClauseStep(wc) == Applied("WhereClause", wc, LowerWhereClause(wc, Top.env))

LowerClauseStep(c) == Applied("Clause", c, lower_clause(c, Top.env))

\* Env::resolve_unselected_projection_ty takes &self
ResolveUnselected(ty) ==
    /\ out' = [op |-> "resolve_unselected_projection_ty", arg |-> ty,
               recv |-> Top.env, res |-> resolve_unselected_projection_ty(Top.env, ty),
               bound |-> Introduced]
    /\ UNCHANGED <<stack, lowerVars>>

Next ==
    \/ \E binders \in BinderLists : Introduce(binders)
    \/ \E binders \in BinderLists : InBindersEnter(binders)
    \/ InBindersExit
    \/ \E name \in NameInputs : Lookup(name)
    \/ \E name \in NameInputs : LookupLifetime(name)
    \/ \E ty \in TyInputs : LowerTyStep(ty)
    \/ \E wc \in WhereClauseInputs : LowerWhereClauseStep(wc)
    \/ \E c \in ClauseInputs : LowerClauseStep(c)
    \/ \E ty \in UnselectedInputs : ResolveUnselected(ty)

Spec == Init /\ [][Next]_vars

\* ------------------------------------------------------------------------
\* Inputs of SpecLower
\* ------------------------------------------------------------------------
SelfIterator == ATraitRef("Iterator", <<AParamTy(ATyId("Self"))>>)
\* Self: Nope, where no item is called Nope
SelfNope == ATraitRef("Nope", <<AParamTy(ATyId("Self"))>>)

ItemInputs ==
    {\* struct Foo<X> { f: X }
     AStruct("Foo", <<APk("Ty", "X")>>, <<[name |-> Ident("f"), ty |-> ATyId("X")]>>,
             <<>>, NoStructFlags),
     \* trait Iterator { type Item; }
     ATrait("Iterator", <<>>, <<>>, <<AAssocTyDefn("Item", <<>>, <<>>, <<>>)>>,
            NoTraitFlags),
     \* the deref trait Deref { type Target; }
     ATrait("Deref", <<>>, <<>>, <<AAssocTyDefn("Target", <<>>, <<>>, <<>>)>>,
            [NoTraitFlags EXCEPT !.deref = TRUE]),
     \* trait Conv<X> where Self: Iterator
     \*     { type Out<Y>: Iterator where Y: Iterator; type Out<'y>; }
     ATrait("Conv", <<APk("Ty", "X")>>, <<AQwc(<<>>, AImplemented(SelfIterator))>>,
            <<AAssocTyDefn("Out", <<APk("Ty", "Y")>>,
                           <<[tag |-> "TraitBound",
                              bound |-> [trait_name |-> Ident("Iterator"),
                                         args_no_self |-> <<>>]]>>,
                           <<AQwc(<<>>, AImplemented(ATraitRef("Iterator",
                                                     <<AParamTy(ATyId("Y"))>>)))>>),
              AAssocTyDefn("Out", <<APk("Lifetime", "'y")>>, <<>>, <<>>)>>,
            NoTraitFlags),
     \* #[auto] trait Send { type X; }
     ATrait("Send", <<>>, <<>>, <<AAssocTyDefn("X", <<>>, <<>>, <<>>)>>,
            [NoTraitFlags EXCEPT !.auto = TRUE]),
     \* an auto trait, also flagged deref: Bad<X> where Self: Nope { }
     ATrait("Bad", <<APk("Ty", "X")>>, <<AQwc(<<>>, AImplemented(SelfNope))>>, <<>>,
            [NoTraitFlags EXCEPT !.auto = TRUE, !.deref = TRUE]),
     \* #[auto] trait Marker where Self: Nope { }
     ATrait("Marker", <<>>, <<AQwc(<<>>, AImplemented(SelfNope))>>, <<>>,
            [NoTraitFlags EXCEPT !.auto = TRUE]),
     \* impl<U> Iterator for Foo<U> { type Item = U; }
     AImpl(<<APk("Ty", "U")>>, "Positive",
           ATraitRef("Iterator", <<AParamTy(ATyApply("Foo", <<AParamTy(ATyId("U"))>>))>>),
           <<>>, <<AAssocTyValue("Item", <<>>, ATyId("U"))>>),
     \* impl<U> Iterator for Foo<U> { type Nope = U; }
     AImpl(<<APk("Ty", "U")>>, "Positive",
           ATraitRef("Iterator", <<AParamTy(ATyApply("Foo", <<AParamTy(ATyId("U"))>>))>>),
           <<>>, <<AAssocTyValue("Nope", <<>>, ATyId("U"))>>),
     \* forall<T> { (T: Iterator) :- (T: Deref), WellFormed(Foo<T>) }
     AClause(<<APk("Ty", "T")>>, AHolds(AImplemented(TIterator)),
             <<ALeaf(AHolds(AImplemented(ATraitRef("Deref", <<AParamTy(ATyId("T"))>>)))),
               ALeaf([tag |-> "TyWellFormed",
                      ty |-> ATyApply("Foo", <<AParamTy(ATyId("T"))>>)])>>)}

Programs == UNION {[1..n -> ItemInputs] : n \in 0..MaxItems}

\* ------------------------------------------------------------------------
\* SpecLower: LowerProgram::lower, one loop iteration per step
\* ------------------------------------------------------------------------
InitLower ==
    /\ stack = <<[env |-> SampleEnv, binders |-> <<>>, saved |-> SampleEnv]>>
    /\ out = None
    /\ \E items \in Programs : LowerStart(items)

\* an error return of lower: its locals are dropped
Fail(err) ==
    /\ result' = [ok |-> FALSE, err |-> err]
    /\ pc' = "done"
    /\ UNCHANGED <<envVars, program, cur, index, item_ids, associated_ty_infos, type_ids,
                   type_kinds, struct_data, trait_data, impl_data, associated_ty_data,
                   custom_clauses, lang_items, assoc_ty_ids, assoc_ty_envs>>

AssignItemIds ==
    /\ pc = "item_ids"
    /\ item_ids' = ItemIds(program)
    /\ index' = index + Len(program)
    /\ pc' = "assoc_ty_infos"
    /\ cur' = 1
    /\ UNCHANGED <<envVars, program, associated_ty_infos, type_ids, type_kinds,
                   struct_data, trait_data, impl_data, associated_ty_data,
                   custom_clauses, lang_items, result, assoc_ty_ids, assoc_ty_envs>>

AssocTyInfoStep ==
    /\ pc = "assoc_ty_infos"
    /\ cur <= Len(program)
    /\ LET r == AssocTyInfoItem(program[cur], item_ids[cur], associated_ty_infos, index)
       IN  IF ~r.ok THEN Fail(r.err)
           ELSE /\ associated_ty_infos' = r.infos
                /\ index' = r.index
                /\ assoc_ty_ids' = assoc_ty_ids
                           \o [j \in 1..Len(r.ids) |->
                                  [item |-> cur, defn |-> j, id |-> r.ids[j]]]
                /\ cur' = cur + 1
                /\ UNCHANGED <<envVars, program, pc, item_ids, type_ids, type_kinds,
                               struct_data, trait_data, impl_data, associated_ty_data,
                               custom_clauses, lang_items, result, assoc_ty_envs>>

\* the end of a loop over items
LoopDone(here, there) ==
    /\ pc = here
    /\ cur > Len(program)
    /\ pc' = there
    /\ cur' = 1
    /\ UNCHANGED <<envVars, program, index, item_ids, associated_ty_infos, type_ids,
                   type_kinds, struct_data, trait_data, impl_data, associated_ty_data,
                   custom_clauses, lang_items, result, assoc_ty_ids, assoc_ty_envs>>

AssocTyInfosDone == LoopDone("assoc_ty_infos", "type_kinds")

TypeKindStep ==
    /\ pc = "type_kinds"
    /\ cur <= Len(program)
    /\ LET r == TypeKindItem(program[cur], item_ids[cur], type_ids, type_kinds)
       IN  /\ type_ids' = r.type_ids
           /\ type_kinds' = r.type_kinds
    /\ cur' = cur + 1
    /\ UNCHANGED <<envVars, program, pc, index, item_ids, associated_ty_infos,
                   struct_data, trait_data, impl_data, associated_ty_data,
                   custom_clauses, lang_items, result, assoc_ty_ids, assoc_ty_envs>>

\* the bodies loop entered once the first item has been through the type
\* kinds loop
TypeKindsDone_AfterFirst ==
    /\ pc = "type_kinds"
    /\ cur > 1
    /\ pc' = "bodies"
    /\ cur' = 1
    /\ UNCHANGED <<envVars, program, index, item_ids, associated_ty_infos, type_ids,
                   type_kinds, struct_data, trait_data, impl_data, associated_ty_data,
                   custom_clauses, lang_items, result, assoc_ty_ids, assoc_ty_envs>>

TypeKindsDone == LoopDone("type_kinds", "bodies")

empty_env == EnvEmpty(type_ids, type_kinds, associated_ty_infos)

BodyOf(tag) ==
    /\ pc = "bodies"
    /\ cur <= Len(program)
    /\ program[cur].tag = tag

LowerStructItem ==
    /\ BodyOf("StructDefn")
    /\ \E r \in {lower_struct(program[cur], item_ids[cur], empty_env)} :
           IF ~r.ok THEN Fail(r.err)
           ELSE /\ struct_data' = MapInsert(struct_data, item_ids[cur], r.val)
                /\ cur' = cur + 1
                /\ UNCHANGED <<envVars, program, pc, index, item_ids, associated_ty_infos,
                               type_ids, type_kinds, trait_data, impl_data,
                               associated_ty_data, custom_clauses, lang_items, result,
                               assoc_ty_ids, assoc_ty_envs>>

LowerTraitItem ==
    /\ BodyOf("TraitDefn")
    /\ \E d \in {program[cur]}, item_id \in {item_ids[cur]} :
       \E t \in {lower_trait(d, item_id, empty_env)},
          a \in {LowerAssocTyDefns(d.assoc_ty_defns, d, item_id, empty_env,
                                   associated_ty_data, assoc_ty_envs)},
          l \in {IF d.flags.deref THEN RegisterDeref(lang_items, item_id)
                 ELSE [ok |-> TRUE, val |-> lang_items]} :
           IF ~t.ok THEN Fail(t.err)
           ELSE IF ~a.ok THEN Fail(a.err)
           ELSE IF ~l.ok THEN Fail(l.err)
           ELSE /\ trait_data' = MapInsert(trait_data, item_id, t.val)
                /\ associated_ty_data' = a.val.data
                /\ assoc_ty_envs' = a.val.envs
                /\ lang_items' = l.val
                /\ cur' = cur + 1
                /\ UNCHANGED <<envVars, program, pc, index, item_ids, associated_ty_infos,
                               type_ids, type_kinds, struct_data, impl_data,
                               custom_clauses, result, assoc_ty_ids>>

\* the error of an impl dropped and the loop carried on with the next item
LowerImplItem_Skip ==
    /\ BodyOf("Impl")
    /\ \E r \in {lower_impl(program[cur], empty_env)} :
           /\ impl_data' = IF r.ok THEN MapInsert(impl_data, item_ids[cur], r.val)
                           ELSE impl_data
           /\ cur' = cur + 1
           /\ UNCHANGED <<envVars, program, pc, index, item_ids, associated_ty_infos,
                          type_ids, type_kinds, struct_data, trait_data,
                          associated_ty_data, custom_clauses, lang_items, result,
                          assoc_ty_ids, assoc_ty_envs>>

LowerImplItem ==
    /\ BodyOf("Impl")
    /\ \E r \in {lower_impl(program[cur], empty_env)} :
           IF ~r.ok THEN Fail(r.err)
           ELSE /\ impl_data' = MapInsert(impl_data, item_ids[cur], r.val)
                /\ cur' = cur + 1
                /\ UNCHANGED <<envVars, program, pc, index, item_ids, associated_ty_infos,
                               type_ids, type_kinds, struct_data, trait_data,
                               associated_ty_data, custom_clauses, lang_items, result,
                               assoc_ty_ids, assoc_ty_envs>>

LowerClauseItem ==
    /\ BodyOf("Clause")
    /\ \E r \in {lower_clause(program[cur], empty_env)} :
           IF ~r.ok THEN Fail(r.err)
           ELSE /\ custom_clauses' = custom_clauses \o r.val
                /\ cur' = cur + 1
                /\ UNCHANGED <<envVars, program, pc, index, item_ids, associated_ty_infos,
                               type_ids, type_kinds, struct_data, trait_data, impl_data,
                               associated_ty_data, lang_items, result, assoc_ty_ids,
                               assoc_ty_envs>>

\* the end of the last loop
BodiesDone ==
    /\ pc = "bodies"
    /\ cur > Len(program)
    /\ pc' = "post"
    /\ UNCHANGED <<envVars, program, cur, index, item_ids, associated_ty_infos, type_ids,
                   type_kinds, struct_data, trait_data, impl_data, associated_ty_data,
                   custom_clauses, lang_items, result, assoc_ty_ids, assoc_ty_envs>>

\* the Program lower assembles from its locals
Assembled ==
    [type_ids |-> type_ids,
     type_kinds |-> type_kinds,
     struct_data |-> struct_data,
     trait_data |-> trait_data,
     impl_data |-> impl_data,
     associated_ty_data |-> associated_ty_data,
     custom_clauses |-> custom_clauses,
     lang_items |-> lang_items,
     default_impl_data |-> <<>>]

\* add_default_impls, record_specialization_priorities and
\* verify_well_formedness are not part of the pass: either they all succeed
\* or one of the last two returns an error
PostPasses ==
    /\ pc = "post"
    /\ \E passed \in BOOLEAN :
          result' = IF passed THEN [ok |-> TRUE, program |-> Assembled]
                    ELSE [ok |-> FALSE, err |-> [kind |-> "PostPass"]]
    /\ pc' = "done"
    /\ UNCHANGED <<envVars, program, cur, index, item_ids, associated_ty_infos, type_ids,
                   type_kinds, struct_data, trait_data, impl_data, associated_ty_data,
                   custom_clauses, lang_items, assoc_ty_ids, assoc_ty_envs>>

\* the additional parameters counted against the declared parameters of the
\* trait, Self left out
ProgramAssocTyInfos_SelfKept(p) ==
    IF \E id \in DOMAIN p.associated_ty_data :
           p.associated_ty_data[id].trait_id \notin DOMAIN p.trait_data
    THEN [ok |-> FALSE, err |-> Panic("no entry found for key")]
    ELSE [ok |-> TRUE,
          val |-> [key \in {<<p.associated_ty_data[id].trait_id,
                              p.associated_ty_data[id].name>> :
                                id \in DOMAIN p.associated_ty_data} |->
                      Bind(CHOOSE id \in DOMAIN p.associated_ty_data :
                               /\ <<p.associated_ty_data[id].trait_id,
                                     p.associated_ty_data[id].name>> = key
                               /\ \A other \in DOMAIN p.associated_ty_data :
                                     <<p.associated_ty_data[other].trait_id,
                                       p.associated_ty_data[other].name>> = key
                                         => other <= id,
                           LAMBDA id :
                      [id |-> id,
                       addl_parameter_kinds |->
                           SubSeq(p.associated_ty_data[id].parameter_kinds, 1,
                                  Len(p.associated_ty_data[id].parameter_kinds) + 1
                                      - Len(p.trait_data[p.associated_ty_data[id].trait_id]
                                                .binders.binders))])]]

\* LowerGoal<ir::Program>: the associated_ty_infos rebuilt from the program's
\* associated_ty_data.  Indexing trait_data with an absent id panics, and so
\* does a datum with fewer parameter kinds than its trait has binders.
ProgramAssocTyInfos(p) ==
    IF \E id \in DOMAIN p.associated_ty_data :
           p.associated_ty_data[id].trait_id \notin DOMAIN p.trait_data
    THEN [ok |-> FALSE, err |-> Panic("no entry found for key")]
    ELSE IF \E id \in DOMAIN p.associated_ty_data :
                Len(p.associated_ty_data[id].parameter_kinds)
                    < Len(p.trait_data[p.associated_ty_data[id].trait_id].binders.binders)
    THEN [ok |-> FALSE, err |-> Panic("attempt to subtract with overflow")]
    ELSE [ok |-> TRUE,
          val |-> [key \in {<<p.associated_ty_data[id].trait_id,
                              p.associated_ty_data[id].name>> :
                                id \in DOMAIN p.associated_ty_data} |->
                      \* collect() over the data in id order: the last datum of a
                      \* key stays
                      Bind(CHOOSE id \in DOMAIN p.associated_ty_data :
                               /\ <<p.associated_ty_data[id].trait_id,
                                     p.associated_ty_data[id].name>> = key
                               /\ \A other \in DOMAIN p.associated_ty_data :
                                     <<p.associated_ty_data[other].trait_id,
                                       p.associated_ty_data[other].name>> = key
                                         => other <= id,
                           LAMBDA id :
                      [id |-> id,
                       addl_parameter_kinds |->
                           SubSeq(p.associated_ty_data[id].parameter_kinds, 1,
                                  Len(p.associated_ty_data[id].parameter_kinds)
                                      - Len(p.trait_data[p.associated_ty_data[id].trait_id]
                                                .binders.binders))])]]

\* Goal::lower on a Program: the goal is lowered in Env::empty over the
\* program's type_ids and type_kinds and the rebuilt associated_ty_infos
LowerGoalProgram(g, p) ==
    Bind(ProgramAssocTyInfos(p), LAMBDA infos :
        IF ~infos.ok THEN infos
        ELSE LowerGoal(g, EnvEmpty(p.type_ids, p.type_kinds, infos.val)))

\* goals lowered against the Program that lower returned
GoalInputs ==
    {\* exists<W> { <W as Iterator>::Item = W }
     [tag |-> "Exists", ids |-> <<APk("Ty", "W")>>,
      goal |-> ALeaf(AHolds(AProjectionEq(
                  AProjection(ATraitRef("Iterator", <<AParamTy(ATyId("W"))>>),
                              "Item", <<>>),
                  ATyId("W"))))],
     \* forall<'l> { exists<W> { <W as Conv<W>>::Out<'l> = Foo<W> } }
     [tag |-> "ForAll", ids |-> <<APk("Lifetime", "'l")>>,
      goal |-> [tag |-> "Exists", ids |-> <<APk("Ty", "W")>>,
                goal |-> ALeaf(AHolds(AProjectionEq(
                            AProjection(ATraitRef("Conv", <<AParamTy(ATyId("W")),
                                                           AParamTy(ATyId("W"))>>),
                                        "Out", <<AParamLifetime("'l")>>),
                            ATyApply("Foo", <<AParamTy(ATyId("W"))>>))))]]}

\* a goal lowered against the returned Program
LowerGoalOnProgram(g) ==
    /\ pc = "done"
    /\ result.ok
    /\ out' = [op |-> "goal", arg |-> g,
               infos |-> ProgramAssocTyInfos(result.program),
               res |-> LowerGoalProgram(g, result.program)]
    /\ UNCHANGED <<stack, lowerVars>>

NextLower ==
    \/ AssignItemIds
    \/ AssocTyInfoStep
    \/ AssocTyInfosDone
    \/ TypeKindStep
    \/ TypeKindsDone
    \/ LowerStructItem
    \/ LowerTraitItem
    \/ LowerImplItem
    \/ LowerClauseItem
    \/ BodiesDone
    \/ PostPasses
    \/ \E g \in GoalInputs : LowerGoalOnProgram(g)

SpecLower == InitLower /\ [][NextLower]_vars

\* ------------------------------------------------------------------------
\* Variable references of IR values
\* ------------------------------------------------------------------------
\* Scoped*(v, n): every Var(d) of v has 0 <= d < n + the parameters of the
\* binders of v around it
RECURSIVE ScopedTy(_, _)
RECURSIVE ScopedParameters(_, _)

ScopedVar(v, n) == 0 <= v.depth /\ v.depth < n

ScopedParameters(ps, n) ==
    \A i \in DOMAIN ps :
        IF ps[i].kind = "Ty" THEN ScopedTy(ps[i].ty, n)
        ELSE ScopedVar(ps[i].lifetime, n)

ScopedTy(t, n) ==
    CASE t.tag = "Var" -> ScopedVar(t, n)
      [] t.tag = "Apply" -> ScopedParameters(t.parameters, n)
      [] t.tag = "Projection" -> ScopedParameters(t.proj.parameters, n)
      [] t.tag = "UnselectedProjection" -> ScopedParameters(t.proj.parameters, n)
      [] t.tag = "ForAll" -> ScopedTy(t.ty, n + t.num_binders)

ScopedWhereClause(wc, n) ==
    IF wc.tag = "Implemented" THEN ScopedParameters(wc.trait_ref.parameters, n)
    ELSE ScopedParameters(wc.projection.parameters, n) /\ ScopedTy(wc.ty, n)

ScopedDomainGoal(g, n) ==
    CASE g.tag = "Holds" -> ScopedWhereClause(g.where_clause, n)
      [] g.tag = "Normalize" ->
            ScopedParameters(g.projection.parameters, n) /\ ScopedTy(g.ty, n)
      [] g.tag \in {"WellFormed", "FromEnv"} ->
            IF g.arg.tag = "Ty" THEN ScopedTy(g.arg.ty, n)
            ELSE ScopedParameters(g.arg.trait_ref.parameters, n)
      [] g.tag = "InScope" -> TRUE
      [] g.tag = "Derefs" -> ScopedTy(g.source, n) /\ ScopedTy(g.target, n)
      [] g.tag \in {"IsLocal", "IsExternal", "IsDeeplyExternal"} -> ScopedTy(g.ty, n)
      [] g.tag = "LocalImplAllowed" -> ScopedParameters(g.trait_ref.parameters, n)

ScopedLeafGoal(l, n) ==
    IF l.tag = "DomainGoal" THEN ScopedDomainGoal(l.goal, n)
    ELSE ScopedParameters(<<l.a, l.b>>, n)

RECURSIVE ScopedGoal(_, _)
RECURSIVE ScopedClause(_, _)

ScopedGoal(g, n) ==
    CASE g.tag = "Quantified" ->
            ScopedGoal(g.subgoal.value, n + Len(g.subgoal.binders))
      [] g.tag = "Implies" ->
            /\ \A i \in DOMAIN g.hyp : ScopedClause(g.hyp[i].clause, n)
            /\ ScopedGoal(g.goal, n)
      [] g.tag = "And" -> ScopedGoal(g.g1, n) /\ ScopedGoal(g.g2, n)
      [] g.tag = "Not" -> ScopedGoal(g.goal, n)
      [] g.tag = "Leaf" -> ScopedLeafGoal(g.leaf, n)

ScopedClause(c, n) ==
    LET m == IF c.tag = "ForAll" THEN n + Len(c.binders) ELSE n
    IN  /\ ScopedDomainGoal(c.value.consequence, m)
        /\ \A i \in DOMAIN c.value.conditions : ScopedGoal(c.value.conditions[i], m)

\* ------------------------------------------------------------------------
\* Claims checked under Spec
\* ------------------------------------------------------------------------
\* C1: in every IR value a successful lowering produces, each variable
\* reference Var(d), of a type or of a lifetime, has 0 <= d < the number of
\* parameters introduced by the binders around it; and every depth that
\* lookup or lookup_lifetime returns is below the number of parameters
\* introduced on the way from Env::empty.
C1_VarsBelowBinders ==
    /\ out.op = "Ty" /\ out.res.ok => ScopedTy(out.res.val, out.bound)
    /\ out.op = "WhereClause" /\ out.res.ok =>
          \A i \in DOMAIN out.res.val : ScopedWhereClause(out.res.val[i], out.bound)
    /\ out.op = "Clause" /\ out.res.ok =>
          \A i \in DOMAIN out.res.val : ScopedClause(out.res.val[i], out.bound)
    /\ out.op = "lookup" /\ out.res.ok /\ out.res.val.tag = "Parameter" =>
          ScopedVar(out.res.val, out.bound)
    /\ out.op = "lookup_lifetime" /\ out.res.ok => ScopedVar(out.res.val, out.bound)

\* a type with a reference to an outer parameter under a ForAll binder has
\* been lowered inside an in_binders call
C1_Witness ==
    /\ out.op = "Ty"
    /\ out.res.ok
    /\ out.bound >= 2
    /\ out.arg = ATyForAll(<<"'b">>, ATyApply("Foo", <<AParamTy(ATyId("T"))>>))
    /\ out.res.val.ty.parameters[1].ty = IrVar(out.bound)

IsIntroduce == out.op \in {"introduce", "in_binders_enter"}

\* C2: when introduce succeeds on an Env with parameter map P and k new
\* parameters, the new map sends every p of P to P[p] + k, the i-th new
\* parameter (from 0) to i, and has no other entry.
C2_IntroduceShifts ==
    IsIntroduce /\ out.res.ok =>
        LET P == out.recv.parameter_map
            M == out.res.val.parameter_map
            k == Len(out.binders)
        IN  /\ \A p \in DOMAIN P : M[p] = P[p] + k
            /\ \A i \in 1..k : M[out.binders[i]] = i - 1
            /\ DOMAIN M = DOMAIN P \cup Range(out.binders)

\* two parameters have been introduced into an Env that held one, now at
\* depth 2
C2_Witness ==
    /\ out.op = "introduce"
    /\ out.res.ok
    /\ Len(out.binders) = 2
    /\ \E p \in DOMAIN out.recv.parameter_map : out.res.val.parameter_map[p] = 2

DuplicateAmongNew(binders) ==
    \E i, j \in DOMAIN binders : i # j /\ binders[i] = binders[j]

\* C3: introduce fails, with "duplicate parameters", exactly when two of the
\* new parameters have the same (kind, name) key or a new parameter has the
\* key of a parameter already in the map.
C3_DuplicateParameters ==
    IsIntroduce =>
        /\ ~out.res.ok <=>
              \/ DuplicateAmongNew(out.binders)
              \/ Range(out.binders) \cap DOMAIN out.recv.parameter_map # {}
        /\ ~out.res.ok => out.res.err = Msg("duplicate parameters")

\* a nested binder that declares again a name of the enclosing binder, and
\* nothing twice itself, has been rejected
C3_Witness ==
    /\ IsIntroduce
    /\ ~out.res.ok
    /\ ~DuplicateAmongNew(out.binders)
    /\ Len(stack) = 2

\* C4: introduce and in_binders leave the receiver as it was: after
\* introduce returns, with a value or an error, the current Env is what it
\* was before; while the callback of in_binders runs and after in_binders
\* returns, the receiver equals what it was at the call, whatever the
\* callback registered or introduced in the new Env.
C4_ReceiverUnchanged ==
    /\ IsIntroduce =>
          IF out.op = "in_binders_enter" /\ out.res.ok
          THEN stack[Len(stack) - 1].env = out.recv
          ELSE Top.env = out.recv
    /\ \A i \in 2..Len(stack) : stack[i - 1].env = stack[i].saved
    /\ out.op = "in_binders" => Top.env = out.saved

\* in_binders has returned from a callback that registered a trait reference
\* in the new Env
C4_Witness ==
    /\ out.op = "in_binders"
    /\ out.callee.traits_in_scope # out.saved.traits_in_scope
    /\ DOMAIN out.callee.parameter_map # {}

\* C8: a WhereClause::ProjectionEq that lowers yields exactly two atoms,
\* ProjectionEq{projection, ty} and then Implemented of the projection's
\* trait reference; a WhereClause::Implemented yields exactly one
\* Implemented atom.
C8_ProjectionEqTwoAtoms ==
    out.op = "WhereClause" /\ out.res.ok =>
        LET v == out.res.val
        IN  IF out.arg.tag = "ProjectionEq"
            THEN /\ Len(v) = 2
                 /\ v[1].tag = "ProjectionEq"
                 /\ v[2].tag = "Implemented"
                 /\ LET pp == v[1].projection.parameters
                        tp == v[2].trait_ref.parameters
                    IN  /\ Len(tp) <= Len(pp)
                        /\ SubSeq(pp, Len(pp) - Len(tp) + 1, Len(pp)) = tp
                 /\ v[2].trait_ref.trait_id
                        = out.recv.type_ids[out.arg.projection.trait_ref.trait_name.str]
            ELSE /\ Len(v) = 1
                 /\ v[1].tag = "Implemented"

\* <T as Stream<U>>::Out<T> = Foo<T> has been lowered
C8_Witness ==
    /\ out.op = "WhereClause"
    /\ out.res.ok
    /\ out.arg.tag = "ProjectionEq"
    /\ Len(out.res.val[1].projection.parameters) = 3

\* C9: the implications emitted for a clause with conditions c1..cn all
\* carry the lowered cn..c1, and there is one implication per lowered
\* consequence.
C9_ConditionsReversed ==
    out.op = "Clause" /\ out.res.ok =>
        LET c == out.arg
            n == Len(c.conditions)
            inner == introduce(out.recv, [i \in 1..Len(c.parameter_kinds) |->
                                             [kind |-> c.parameter_kinds[i].kind,
                                              name |-> c.parameter_kinds[i].name.str]]).val
            consequences ==
                IF c.consequence.tag = "Holds"
                   /\ c.consequence.where_clause.tag = "ProjectionEq"
                THEN 2 ELSE 1
        IN  /\ Len(out.res.val) = consequences
            /\ \A k \in DOMAIN out.res.val :
                  /\ Len(out.res.val[k].value.conditions) = n
                  /\ \A j \in 1..n :
                        out.res.val[k].value.conditions[j]
                            = LowerGoal(c.conditions[n + 1 - j], inner).val

\* a clause with two consequences and three conditions, the first and the
\* last of them different, has been lowered
C9_Witness ==
    /\ out.op = "Clause"
    /\ out.res.ok
    /\ Len(out.res.val) = 2
    /\ Len(out.arg.conditions) = 3
    /\ out.res.val[1].value.conditions[1] # out.res.val[1].value.conditions[3]

\* ------------------------------------------------------------------------
\* Claims checked under SpecLower
\* ------------------------------------------------------------------------
IsTrait(i) == program[i].tag = "TraitDefn"

\* the associated-type definitions of the traits before position i
RECURSIVE DefnsBefore(_)
DefnsBefore(i) ==
    IF i <= 1 THEN 0
    ELSE DefnsBefore(i - 1)
             + (IF IsTrait(i - 1) THEN Len(program[i - 1].assoc_ty_defns) ELSE 0)

InfoIds == {associated_ty_infos[k].id : k \in DOMAIN associated_ty_infos}

\* C5: the i-th top-level item (from 0) has index i; the associated-type
\* definitions take the following indexes, trait after trait in source
\* order and definition after definition within a trait; the ids of the
\* items and the ids held in associated_ty_infos and associated_ty_data are
\* pairwise distinct.
C5_ItemIdAllocation ==
    pc # "item_ids" =>
        /\ Len(item_ids) = Len(program)
        /\ \A i \in DOMAIN item_ids : item_ids[i] = i - 1
        /\ \A k \in DOMAIN assoc_ty_ids :
              LET a == assoc_ty_ids[k]
              IN  /\ IsTrait(a.item)
                  /\ a.defn \in DOMAIN program[a.item].assoc_ty_defns
                  /\ a.id = Len(program) + DefnsBefore(a.item) + a.defn - 1
        /\ \A k \in DOMAIN associated_ty_infos :
              \E j \in DOMAIN assoc_ty_ids :
                  /\ assoc_ty_ids[j].id = associated_ty_infos[k].id
                  /\ item_ids[assoc_ty_ids[j].item] = k[1]
                  /\ program[assoc_ty_ids[j].item]
                         .assoc_ty_defns[assoc_ty_ids[j].defn].name.str = k[2]
        /\ \A k1, k2 \in DOMAIN associated_ty_infos :
              associated_ty_infos[k1].id = associated_ty_infos[k2].id => k1 = k2
        /\ InfoIds \cap Range(item_ids) = {}
        /\ \A id \in DOMAIN associated_ty_data :
              /\ associated_ty_data[id].id = id
              /\ id \in InfoIds

\* a program with associated types in two traits has been lowered
C5_Witness ==
    /\ pc = "done"
    /\ result.ok
    /\ Cardinality({k[1] : k \in DOMAIN associated_ty_infos}) = 2
    /\ Cardinality(DOMAIN associated_ty_data) >= 2

\* the declared parameters of an item, as ir parameter kinds
Declared(d) ==
    [i \in 1..Len(d.parameter_kinds) |->
        [kind |-> d.parameter_kinds[i].kind, name |-> d.parameter_kinds[i].name.str]]

\* C6: parameter_kinds of every AssociatedTyDatum is the declared
\* parameters of its definition, then Self, then the declared parameters of
\* its trait; and its bounds and where-clauses were lowered in an Env where
\* the i-th entry of parameter_kinds has depth i.
C6_AssocTyParameterKinds ==
    \A id \in DOMAIN associated_ty_data :
        LET datum == associated_ty_data[id]
            pk == datum.parameter_kinds
        IN  /\ \E i \in DOMAIN program :
                  /\ IsTrait(i)
                  /\ item_ids[i] = datum.trait_id
                  /\ \E j \in DOMAIN program[i].assoc_ty_defns :
                        /\ program[i].assoc_ty_defns[j].name.str = datum.name
                        /\ pk = Declared(program[i].assoc_ty_defns[j])
                                    \o <<[kind |-> "Ty", name |-> "Self"]>>
                                    \o Declared(program[i])
            /\ id \in DOMAIN assoc_ty_envs
            /\ DOMAIN assoc_ty_envs[id] = Range(pk)
            /\ \A i \in DOMAIN pk : assoc_ty_envs[id][pk[i]] = i - 1

\* a datum with a parameter of its own and a declared parameter of its trait
C6_Witness ==
    \E id \in DOMAIN associated_ty_data :
        /\ Len(associated_ty_data[id].parameter_kinds) = 3
        /\ associated_ty_data[id].parameter_kinds[2] = [kind |-> "Ty", name |-> "Self"]

\* C7 as stated: anonymize(all_parameters(trait)) is as long as the
\* declared parameter list of the trait.
C7_AllParametersStripSelf ==
    \A i \in DOMAIN program :
        IsTrait(i) =>
            Len(anonymize(all_parameters(program[i]))) = Len(program[i].parameter_kinds)

\* C7 amended: anonymize(all_parameters(trait)), the binders of the trait's
\* datum, is one longer than the declared parameter list, Self coming
\* first; it is the binders of the trait's TypeKind that are as long as the
\* declared list.
C7_SelfStrippedInTypeKind ==
    \A i \in DOMAIN program :
        IsTrait(i) =>
            LET a == anonymize(all_parameters(program[i]))
                n == Len(program[i].parameter_kinds)
            IN  /\ Len(a) = n + 1
                /\ a[1] = [kind |-> "Ty"]
                /\ \A j \in 1..n : a[j + 1].kind = program[i].parameter_kinds[j].kind
                /\ i \in DOMAIN item_ids /\ item_ids[i] \in DOMAIN type_kinds =>
                      LET k == type_kinds[item_ids[i]].binders.binders
                      IN  /\ Len(k) = n
                          /\ \A j \in 1..n : k[j].kind = program[i].parameter_kinds[j].kind
                /\ i \in DOMAIN item_ids /\ item_ids[i] \in DOMAIN trait_data =>
                      trait_data[item_ids[i]].binders.binders = a

\* a trait with a declared parameter has had its kind and its body lowered
C7_Witness ==
    \E i \in DOMAIN program :
        /\ IsTrait(i)
        /\ Len(program[i].parameter_kinds) = 1
        /\ pc = "post"
        /\ Len(trait_data[item_ids[i]].binders.binders) = 2
        /\ Len(type_kinds[item_ids[i]].binders.binders) = 1

IsDeref(i) == IsTrait(i) /\ program[i].flags.deref

\* C10: lang_items holds at most one entry; the entry for DerefTrait is
\* the id of the first trait flagged deref; reaching the registration of a
\* second trait flagged deref ends lower with DuplicateLangItem(DerefTrait);
\* a program that lowers has at most one trait flagged deref.
C10_OneDerefTrait ==
    /\ Cardinality(DOMAIN lang_items) <= 1
    /\ DerefTrait \in DOMAIN lang_items =>
          \E i \in DOMAIN program :
              /\ IsDeref(i)
              /\ lang_items[DerefTrait] = item_ids[i]
              /\ \A j \in 1..(i - 1) : ~IsDeref(j)
    /\ pc \in {"post", "done"} /\ (pc = "done" => result.ok) =>
          /\ Cardinality({i \in DOMAIN program : IsDeref(i)}) <= 1
          /\ (\E i \in DOMAIN program : IsDeref(i)) => DerefTrait \in DOMAIN lang_items
    /\ pc = "done" /\ ~result.ok /\ result.err.kind = "DuplicateLangItem" =>
          /\ result.err.item = DerefTrait
          /\ IsDeref(cur)
          /\ \E j \in 1..(cur - 1) : IsDeref(j)
    /\ pc = "done" /\ ~result.ok /\ DerefTrait \in DOMAIN lang_items
          /\ cur \in DOMAIN program /\ IsDeref(cur)
          /\ lower_trait(program[cur], item_ids[cur], empty_env).ok
          /\ LowerAssocTyDefns(program[cur].assoc_ty_defns, program[cur], item_ids[cur],
                               empty_env, associated_ty_data, assoc_ty_envs).ok =>
          result.err = [kind |-> "DuplicateLangItem", item |-> DerefTrait]

\* lower has failed on the second of two traits flagged deref
C10_Witness ==
    /\ pc = "done"
    /\ ~result.ok
    /\ result.err.kind = "DuplicateLangItem"
    /\ lang_items[DerefTrait] = 0
    /\ cur = 2

\* lower has returned an error raised while the loop was at item i
FailedAt(i) == pc = "done" /\ ~result.ok /\ cur = i /\ i \in DOMAIN program

\* the loop that failed is the one creating the associated-type ids: the
\* kind of the trait it stopped at has not been recorded
InFirstPass == item_ids[cur] \notin DOMAIN type_kinds

IsAuto(i) == IsTrait(i) /\ program[i].flags.auto

\* C11: a program whose bodies have all lowered has no auto trait with a
\* declared parameter, a where-clause or an associated-type definition.  An
\* auto trait with associated-type definitions ends lower, in the loop that
\* creates the associated-type ids, with 'auto trait cannot define
\* associated types'.  When the body of an auto trait is reached and its
\* parameters are introduced, a declared parameter ends lower with 'auto
\* trait cannot have parameters' whatever its where-clauses are, and,
\* without declared parameters, a where-clause ends lower with 'auto trait
\* cannot have where clauses' without being lowered.
C11_AutoTraitChecks ==
    /\ pc = "post" \/ (pc = "done" /\ result.ok) =>
          \A i \in DOMAIN program :
              IsAuto(i) => /\ program[i].parameter_kinds = <<>>
                           /\ program[i].where_clauses = <<>>
                           /\ program[i].assoc_ty_defns = <<>>
    /\ \A i \in DOMAIN program :
          FailedAt(i) /\ IsAuto(i) =>
              IF InFirstPass
              THEN /\ program[i].assoc_ty_defns # <<>>
                   /\ result.err = Msg("auto trait cannot define associated types")
              ELSE /\ program[i].assoc_ty_defns = <<>>
                   /\ introduce(empty_env, all_parameters(program[i])).ok =>
                         IF program[i].parameter_kinds # <<>>
                         THEN result.err = Msg("auto trait cannot have parameters")
                         ELSE program[i].where_clauses # <<>> =>
                                 result.err = Msg("auto trait cannot have where clauses")
    /\ pc = "done" /\ ~result.ok /\ result.err.kind = "Msg"
          /\ result.err.msg \in {"auto trait cannot define associated types",
                                 "auto trait cannot have parameters",
                                 "auto trait cannot have where clauses"} =>
          cur \in DOMAIN program /\ IsAuto(cur)

\* lower has stopped at an auto trait that has a declared parameter and a
\* where-clause naming an unknown trait
C11_Witness ==
    /\ \E i \in DOMAIN program :
          /\ FailedAt(i) /\ IsAuto(i) /\ ~InFirstPass
          /\ program[i].parameter_kinds # <<>>
          /\ program[i].where_clauses # <<>>
    /\ result.err = Msg("auto trait cannot have parameters")


\* ------------------------------------------------------------------------
\* Unselected projections
\* ------------------------------------------------------------------------
\* C12: lowering an unselected projection type Name<args> lowers its args and
\* forwards to Env::resolve_unselected_projection_ty: the result is the
\* projection on the one in-scope trait defining Name, and it is the error
\* 'ambiguous associated ty' when zero or several in-scope traits define it.
C12_UnselectedProjectionResolved ==
    out.op = "Ty" /\ out.arg.tag = "UnselectedProjection" =>
        LET args == LowerParameters(out.arg.proj.args, out.recv)
            r == resolve_unselected_projection_ty(
                     args.env, [type_name |-> out.arg.proj.name.str,
                                parameters |-> args.val])
        IN  args.ok =>
                IF r.ok
                THEN /\ out.res.ok
                     /\ out.res.val = [tag |-> "Projection", proj |-> r.val]
                ELSE /\ ~out.res.ok
                     /\ out.res.err = Msg("ambiguous associated ty")


\* the entries of associated_ty_infos named name whose trait is in scope
InScopeDefining(env, name) ==
    {key \in DOMAIN env.associated_ty_infos :
        key[2] = name /\ key[1] \in DOMAIN env.traits_in_scope}

\* C13: resolve_unselected_projection_ty succeeds exactly when one and only
\* one entry of associated_ty_infos has the requested name and a trait id
\* that is a key of traits_in_scope; the ProjectionTy then has that entry's
\* id and the unselected projection's parameters followed by those of the
\* trait reference recorded for that trait.  With zero or several such
\* entries the error is 'ambiguous associated ty'.
C13_ResolveUnique ==
    out.op = "resolve_unselected_projection_ty" =>
        LET found == InScopeDefining(out.recv, out.arg.type_name)
        IN  /\ out.res.ok <=> Cardinality(found) = 1
            /\ out.res.ok =>
                  \A key \in found :
                      /\ out.res.val.associated_ty_id
                             = out.recv.associated_ty_infos[key].id
                      /\ out.res.val.parameters
                             = out.arg.parameters
                                   \o out.recv.traits_in_scope[key[1]].parameters
            /\ ~out.res.ok => out.res.err = Msg("ambiguous associated ty")
            /\ out.res.env = out.recv

\* Out<'x> resolved with Iterator and Stream both in scope
C13_Witness ==
    /\ out.op = "resolve_unselected_projection_ty"
    /\ out.res.ok
    /\ out.arg.parameters # <<>>
    /\ Cardinality(DOMAIN out.recv.traits_in_scope) = 2
    /\ Len(out.res.val.parameters) = 3


\* ------------------------------------------------------------------------
\* Name resolution
\* ------------------------------------------------------------------------
\* C14: lookup resolves parameters before types.  A type-kinded parameter
\* named like a struct or trait wins; without one the name resolves to the
\* item id in type_ids; without either the error is InvalidTypeName.  A
\* lifetime-kinded parameter is never what lookup returns, and
\* lookup_lifetime returns lifetime-kinded parameters only.
C14_ParametersBeforeTypes ==
    /\ out.op = "lookup" =>
          LET map == Top.env.parameter_map
              n == out.name.str
          IN  /\ PTy(n) \in DOMAIN map =>
                    /\ out.res.ok
                    /\ out.res.val = [tag |-> "Parameter", depth |-> map[PTy(n)]]
              /\ PTy(n) \notin DOMAIN map /\ n \in DOMAIN Top.env.type_ids =>
                    /\ out.res.ok
                    /\ out.res.val = [tag |-> "Type", id |-> Top.env.type_ids[n]]
              /\ PTy(n) \notin DOMAIN map /\ n \notin DOMAIN Top.env.type_ids =>
                    /\ ~out.res.ok
                    /\ out.res.err = [kind |-> "InvalidTypeName", name |-> out.name]
              /\ out.res.ok /\ out.res.val.tag = "Parameter" =>
                    \A k \in DOMAIN map :
                        map[k] = out.res.val.depth => k.kind = "Ty" /\ k.name = n
    /\ out.op = "lookup_lifetime" =>
          LET map == Top.env.parameter_map
              n == out.name.str
          IN  /\ out.res.ok <=> PLifetime(n) \in DOMAIN map
              /\ out.res.ok =>
                    /\ out.res.val = [tag |-> "Parameter", depth |-> map[PLifetime(n)]]
                    /\ \A k \in DOMAIN map :
                          map[k] = out.res.val.depth => k.kind = "Lifetime" /\ k.name = n
              /\ ~out.res.ok => out.res.err = Msg("invalid lifetime name")

\* T names a struct and a type parameter in scope next to a lifetime
C14_Witness ==
    /\ out.op = "lookup"
    /\ out.name.str = "T"
    /\ "T" \in DOMAIN Top.env.type_ids
    /\ PTy("T") \in DOMAIN Top.env.parameter_map
    /\ PLifetime("'a") \in DOMAIN Top.env.parameter_map
    /\ out.res.ok
    /\ out.res.val.tag = "Parameter"


\* ------------------------------------------------------------------------
\* Applications and projections
\* ------------------------------------------------------------------------
\* C15: lowering Ty::Apply { name, args } succeeds only if name resolves to
\* an item id, the item's TypeKind has as many binders as there are args and
\* the i-th arg has the kind of the i-th binder; the result is then
\* Apply(id, the lowered args in order).  A name that is a type parameter
\* fails with CannotApplyTypeParameter(name); a wrong number of args fails
\* with IncorrectNumberOfTypeParameters(name, expected, actual) before any
\* arg is lowered; args that lower but differ in kind from the binders fail
\* with 'incorrect parameter kind'.
C15_ApplyChecks ==
    out.op = "Ty" /\ out.arg.tag = "Apply" =>
        LET name == out.arg.name
            args == out.arg.args
            l == lookup(out.recv, name)
            binders == type_kind(out.recv, l.val.id).binders.binders
            lowered == LowerParameters(args, out.recv)
        IN  /\ ~l.ok => ~out.res.ok /\ out.res.err = l.err
            /\ l.ok /\ l.val.tag = "Parameter" =>
                  /\ ~out.res.ok
                  /\ out.res.err = [kind |-> "CannotApplyTypeParameter", name |-> name]
            /\ l.ok /\ l.val.tag = "Type" =>
                  /\ Len(binders) # Len(args) =>
                        /\ ~out.res.ok
                        /\ out.res.err = [kind |-> "IncorrectNumberOfTypeParameters",
                                          name |-> name,
                                          expected |-> Len(binders),
                                          actual |-> Len(args)]
                  /\ Len(binders) = Len(args) /\ ~lowered.ok =>
                        ~out.res.ok /\ out.res.err = lowered.err
                  /\ /\ Len(binders) = Len(args)
                     /\ lowered.ok
                     /\ \E i \in DOMAIN args : args[i].kind # binders[i].kind
                     => /\ ~out.res.ok
                        /\ out.res.err = Msg("incorrect parameter kind")
                  /\ /\ Len(binders) = Len(args)
                     /\ lowered.ok
                     /\ \A i \in DOMAIN args : args[i].kind = binders[i].kind
                     => /\ out.res.ok
                        /\ out.res.val = [tag |-> "Apply", id |-> l.val.id,
                                          parameters |-> lowered.val]
                        /\ \A i \in DOMAIN args :
                              out.res.val.parameters[i]
                                  = LowerParameter(args[i], out.recv).val

\* Foo<U> with U a type parameter in scope
C15_Witness ==
    /\ out.op = "Ty"
    /\ out.arg.tag = "Apply"
    /\ out.res.ok
    /\ Len(out.res.val.parameters) = 1
    /\ out.res.val.parameters[1].kind = "Ty"
    /\ out.res.val.parameters[1].ty.tag = "Var"


\* C16: lowering a selected projection <trait_ref>::name<args> yields the
\* id of the AssociatedTyInfo of (trait id, name) and as parameters the
\* lowered args first, then the parameters of the lowered trait reference,
\* Self first.  It fails when the trait has no such associated type, when
\* the number of args differs from the number of additional parameters of
\* the associated type, and when an arg differs in kind from its parameter.
C16_ProjectionParameters ==
    out.op = "Ty" /\ out.arg.tag = "Projection" =>
        LET p == out.arg.proj
            tr == LowerTraitRef(p.trait_ref, out.recv)
            info == get_assoc_ty_info(out.recv, <<tr.val.trait_id, p.name.str>>)
            kinds == info.info.addl_parameter_kinds
            args == LowerParameters(p.args, tr.env)
        IN  /\ ~tr.ok => ~out.res.ok /\ out.res.err = tr.err
            /\ tr.ok /\ ~info.some =>
                  /\ ~out.res.ok
                  /\ out.res.err = Msg("no associated type defined in trait")
            /\ tr.ok /\ info.some /\ ~args.ok =>
                  ~out.res.ok /\ out.res.err = args.err
            /\ tr.ok /\ info.some /\ args.ok =>
                  IF Len(p.args) # Len(kinds)
                  THEN /\ ~out.res.ok
                       /\ out.res.err
                              = Msg("wrong number of parameters for associated type")
                  ELSE IF \E i \in DOMAIN p.args : p.args[i].kind # kinds[i].kind
                  THEN /\ ~out.res.ok
                       /\ out.res.err
                              = Msg("incorrect kind for associated type parameter")
                  ELSE /\ out.res.ok
                       /\ out.res.val.tag = "Projection"
                       /\ out.res.val.proj.associated_ty_id = info.info.id
                       /\ out.res.val.proj.parameters = args.val \o tr.val.parameters
                       /\ tr.val.parameters[1]
                              = LowerParameter(p.trait_ref.args[1], out.recv).val

\* <T as Stream<U>>::Out<Foo<U>>: one argument, then Self and the trait's
\* parameter
C16_Witness ==
    /\ out.op = "Ty"
    /\ out.arg.tag = "Projection"
    /\ out.res.ok
    /\ Len(out.arg.proj.args) = 1
    /\ Len(out.res.val.proj.parameters) = 3
    /\ out.res.val.proj.parameters[1] # out.res.val.proj.parameters[2]
    /\ out.res.val.proj.parameters[1] # out.res.val.proj.parameters[3]


\* ------------------------------------------------------------------------
\* Associated-type values of impls
\* ------------------------------------------------------------------------
\* C17: whenever lower_impl gets to lower an associated-type value, the
\* AssociatedTyInfo of (trait id of the impl's trait reference, name of the
\* value) is in associated_ty_infos, also for a value whose name the trait
\* does not declare.
C17_AssocTyInfoExists ==
    pc = "bodies" /\ cur \in DOMAIN program /\ program[cur].tag = "Impl" =>
        LET d == program[cur]
            e == introduce(empty_env, all_parameters(d))
            tr == LowerPolarizedTraitRef(d.trait_ref, e.val)
            wc == lower_where_clauses(d, tr.env)
            trait_id == tr.val.trait_ref.trait_id
            reached(j) ==
                LowerAssocTyValues(SubSeq(d.assoc_ty_values, 1, j - 1),
                                   trait_id, wc.env).ok
        IN  e.ok /\ tr.ok /\ tr.val.polarity = "Positive" /\ wc.ok =>
                \A j \in DOMAIN d.assoc_ty_values :
                    reached(j) =>
                        get_assoc_ty_info(wc.env,
                            <<trait_id, d.assoc_ty_values[j].name.str>>).some


\* ------------------------------------------------------------------------
\* The passes of lower
\* ------------------------------------------------------------------------
\* the tables of the first loops hold every item of the program
TablesComplete ==
    /\ Len(item_ids) = Len(program)
    /\ \A i \in DOMAIN program :
          /\ IsTrait(i) =>
                \A j \in DOMAIN program[i].assoc_ty_defns :
                    <<item_ids[i], program[i].assoc_ty_defns[j].name.str>>
                        \in DOMAIN associated_ty_infos
          /\ program[i].tag \in {"StructDefn", "TraitDefn"} =>
                /\ item_ids[i] \in DOMAIN type_kinds
                /\ program[i].name.str \in DOMAIN type_ids

\* C18: no body is lowered before every item has its ItemId, every
\* associated-type definition its AssociatedTyInfo and every struct and trait
\* its TypeKind: while the first loops run no lowered body exists, and when
\* the bodies loop runs the tables are complete.  Hence an impl resolves its
\* trait to the id of the trait's declaration wherever that declaration
\* stands in the source, before the impl or after it.
C18_TablesBeforeBodies ==
    LET \* the position of the declaration that type_ids keeps for name n
        DeclaredAt(n) ==
            CHOOSE j \in DOMAIN program :
                /\ program[j].tag \in {"StructDefn", "TraitDefn"}
                /\ program[j].name.str = n
                /\ \A k \in DOMAIN program :
                      program[k].tag \in {"StructDefn", "TraitDefn"}
                          /\ program[k].name.str = n => k <= j
    IN
    /\ pc \in {"item_ids", "assoc_ty_infos", "type_kinds"} =>
          /\ DOMAIN struct_data = {}
          /\ DOMAIN trait_data = {}
          /\ DOMAIN impl_data = {}
          /\ DOMAIN associated_ty_data = {}
          /\ custom_clauses = <<>>
          /\ DOMAIN lang_items = {}
    /\ pc = "bodies" => TablesComplete
    /\ \A i \in DOMAIN program :
          /\ program[i].tag = "Impl"
          /\ i \in DOMAIN item_ids
          /\ item_ids[i] \in DOMAIN impl_data
          => impl_data[item_ids[i]].binders.value.trait_ref.trait_ref.trait_id
                 = item_ids[DeclaredAt(program[i].trait_ref.trait_ref.trait_name.str)]

\* an impl lowered before the declarations of its trait and of its Self type
C18_Witness ==
    /\ pc = "bodies"
    /\ cur = 2
    /\ program[1].tag = "Impl"
    /\ item_ids[1] \in DOMAIN impl_data
    /\ Len(program) = 3
    /\ \A j \in {2, 3} : program[j].tag \in {"StructDefn", "TraitDefn"}
    /\ impl_data[item_ids[1]].binders.value.trait_ref.trait_ref.trait_id
           \in {item_ids[2], item_ids[3]}


\* the result of the arm of the bodies loop for item i, with the tables and
\* the lang items as they are
BodyResult(i) ==
    LET d == program[i]
        id == item_ids[i]
    IN  CASE d.tag = "StructDefn" -> lower_struct(d, id, empty_env)
          [] d.tag = "TraitDefn" ->
                LET t == lower_trait(d, id, empty_env)
                    a == LowerAssocTyDefns(d.assoc_ty_defns, d, id, empty_env,
                                           associated_ty_data, assoc_ty_envs)
                    l == IF d.flags.deref THEN RegisterDeref(lang_items, id)
                         ELSE [ok |-> TRUE, val |-> lang_items]
                IN  IF ~t.ok THEN t ELSE IF ~a.ok THEN a ELSE l
          [] d.tag = "Impl" -> lower_impl(d, empty_env)
          [] d.tag = "Clause" -> lower_clause(d, empty_env)

\* the data map of the bodies loop that receives item i, if there is one
Lowered(i) ==
    CASE program[i].tag = "StructDefn" -> item_ids[i] \in DOMAIN struct_data
      [] program[i].tag = "TraitDefn" -> item_ids[i] \in DOMAIN trait_data
      [] program[i].tag = "Impl" -> item_ids[i] \in DOMAIN impl_data
      [] program[i].tag = "Clause" -> FALSE

\* lower has returned the error of a body
BodyFailed ==
    /\ pc = "done"
    /\ ~result.ok
    /\ result.err.kind # "PostPass"
    /\ TablesComplete

\* C19: when the body of an item fails to lower, lower returns that error at
\* once.  No Program is returned, every earlier body has been lowered, no
\* later body is lowered, and the error is that of the earliest item with a
\* failing body, whatever later items would fail with.  A Program is
\* assembled only when every body has been lowered.
C19_FirstErrorReturned ==
    /\ BodyFailed =>
          /\ cur \in DOMAIN program
          /\ ~BodyResult(cur).ok
          /\ result = [ok |-> FALSE, err |-> BodyResult(cur).err]
          /\ \A j \in DOMAIN program :
                /\ j < cur /\ program[j].tag # "Clause" => Lowered(j)
                /\ j > cur => ~Lowered(j)
          /\ Len(custom_clauses)
                 = SeqSum([j \in 1..(cur - 1) |->
                              IF program[j].tag = "Clause"
                              THEN Len(lower_clause(program[j], empty_env).val)
                              ELSE 0])
    /\ pc = "post" \/ (pc = "done" /\ result.ok) =>
          \A j \in DOMAIN program : program[j].tag # "Clause" => Lowered(j)

\* the first of three items fails and the two after it would fail with
\* other errors
C19_Witness ==
    /\ BodyFailed
    /\ cur = 1
    /\ Len(program) = 3
    /\ result.err.kind # "Panic"
    /\ \A j \in {2, 3} : /\ ~BodyResult(j).ok
                         /\ BodyResult(j).err # result.err
    /\ BodyResult(2).err # BodyResult(3).err


\* ------------------------------------------------------------------------
\* The depths of parameter_map
\* ------------------------------------------------------------------------
\* C20: in every Env reached from Env::empty by successful introduce and
\* in_binders calls, the depths of parameter_map are pairwise distinct and
\* are exactly 0..n-1, where n is the number of entries of the map and the
\* total number of parameters introduced on the way.
C20_DepthsContiguous ==
    LET \* the depths of map are pairwise distinct and are exactly 0..n-1
        DepthsContiguous(map, n) ==
            /\ Cardinality(DOMAIN map) = n
            /\ {map[k] : k \in DOMAIN map} = 0..(n - 1)
            /\ \A k1, k2 \in DOMAIN map : map[k1] = map[k2] => k1 = k2
    IN
    /\ \A i \in DOMAIN stack :
          DepthsContiguous(stack[i].env.parameter_map,
                           SeqSum([j \in 1..i |-> Len(stack[j].binders)]))
    /\ out.op \in {"introduce", "in_binders_enter"} /\ out.res.ok =>
          DepthsContiguous(out.res.val.parameter_map,
                           Cardinality(DOMAIN out.recv.parameter_map)
                               + Len(out.binders))

\* introduce succeeding on an Env that in_binders has given two parameters
C20_Witness ==
    /\ out.op = "introduce"
    /\ out.res.ok
    /\ Len(out.binders) = 1
    /\ Cardinality(DOMAIN out.recv.parameter_map) = 2
    /\ Len(stack) = 2
    /\ out.res.val.parameter_map[out.binders[1]] = 0


\* ------------------------------------------------------------------------
\* Associated-type infos rebuilt from a Program
\* ------------------------------------------------------------------------
\* C21: for every Program that lower returns, the AssociatedTyInfo table
\* that goal lowering rebuilds from it (key (trait_id, name), id the datum's
\* id, addl_parameter_kinds the first len(parameter_kinds) - len(trait
\* binders) parameter kinds) is the associated_ty_infos table the driver
\* used, key for key and value for value; a goal then lowers against the
\* Program as it would in the driver's own Env.
C21_AssocTyInfosRoundTrip ==
    /\ pc = "done" /\ result.ok =>
          /\ ProgramAssocTyInfos(result.program).ok
          /\ DOMAIN ProgramAssocTyInfos(result.program).val
                 = DOMAIN associated_ty_infos
          /\ \A key \in DOMAIN associated_ty_infos :
                ProgramAssocTyInfos(result.program).val[key]
                    = associated_ty_infos[key]
    /\ out.op = "goal" =>
          /\ out.infos.ok
          /\ out.infos.val = associated_ty_infos
          /\ out.res = LowerGoal(out.arg, empty_env)

\* a goal naming Conv::Out<'l> lowered against a Program whose table holds
\* an associated type with a parameter of its own
C21_Witness ==
    /\ pc = "done"
    /\ result.ok
    /\ out.op = "goal"
    /\ out.arg.tag = "ForAll"
    /\ out.res.ok
    /\ Cardinality(DOMAIN out.infos.val) >= 2
    /\ \E key \in DOMAIN out.infos.val :
          /\ key[2] = "Out"
          /\ out.infos.val[key].addl_parameter_kinds = <<PLifetime("'y")>>

====
